---- MODULE Spec2Model ----
(***************************************************************************)
(* The PROMIS assessment engine of the browser client (main.js): the       *)
(* session store assessmentSessions, the session objects, the assessment   *)
(* containers of the rendered form list and the requests in flight.        *)
(*                                                                         *)
(* Every action is one synchronous run of a handler, from the event that   *)
(* starts it to its next await on the network (JavaScript runs a handler   *)
(* to completion; an await on an already settled promise resumes before    *)
(* any other event).  Session objects have identity: the store maps a      *)
(* form OID to a session object, and the closures of a rendered question   *)
(* and the frames of loadNextAssessmentItem / completeFixedAssessment      *)
(* keep the object they captured also after the store has moved on.        *)
(*                                                                         *)
(* Beside it, the emotion monitor of the page (HumeMonitor with the two    *)
(* monitoring buttons of main.js) and the loop of the game (RunnerGame),   *)
(* each with a specification of its own over the same state.               *)
(***************************************************************************)
EXTENDS Integers, Sequences, FiniteSets, TLC

\* ---------------------------------------------------------------- bounds
MaxSessions == 2     \* session objects created in one run
MaxInflight == 2     \* requests in flight at once
Digits == 6          \* decimal places a number of the model keeps
MaxItems == 2        \* items of a document given to getOrderedItems
MaxOptions == 3      \* options of an item given to extractOptions
MaxStarts == 2       \* calls of startMonitoring made in one run
MaxEncoding == 1     \* frames being encoded at once
MaxAwaiting == 2     \* frames sent on one socket and not yet replied to
MaxFrames == 92      \* frames the game counts in one run
MaxScheduled == 2    \* animation-frame callbacks pending at once

\* ------------------------------------------- numbers and their spellings
\* A number is held in units of 10^-Digits, exactly; NaN is the value that is
\* no number. Text is a tuple of characters. A literal's exponent part and the
\* word Infinity are not read: no input of the model holds them.

Unit == 10 ^ Digits

NaN == [nan |-> TRUE]

Num(n) == [nan |-> FALSE, n |-> n]

isNaN(x) == x.nan

DigitChars == << "0", "1", "2", "3", "4", "5", "6", "7", "8", "9" >>

isDigit(c) == \E d \in 1..10 : DigitChars[d] = c

digitValue(c) == (CHOOSE d \in 1..10 : DigitChars[d] = c) - 1

\* The first position at or after i of text that holds no blank.
skipBlanks(text, i) ==
    CHOOSE k \in i..(Len(text) + 1) :
        /\ \A j \in i..(k - 1) : text[j] = " "
        /\ k = Len(text) + 1 \/ text[k] # " "

\* The number of digits of text that follow one another from position i on.
digitRun(text, i) ==
    CHOOSE k \in 0..(Len(text) + 1 - i) :
        /\ \A j \in 0..(k - 1) : isDigit(text[i + j])
        /\ i + k > Len(text) \/ ~isDigit(text[i + k])

\* The value of the k digits of text from position i on.
digitsValue(text, i, k) ==
    LET v[j \in 0..k] ==
            IF j = 0 THEN 0 ELSE v[j - 1] * 10 + digitValue(text[i + j - 1])
    IN  v[k]

\* The decimal literal that text holds from position i on: a sign, digits, a
\* point and digits. `len` is 0 when no literal starts there. Its digits
\* begin at start; it has `whole` digits before the point and `part` digits
\* after it.
decimalLiteral(text, i) ==
    LET literal(start, whole, part) ==
            IF whole + part = 0
            THEN [len |-> 0, n |-> 0]
            ELSE [len |-> (IF part > 0 \/ (whole > 0 /\ start + whole <= Len(text)
                                             /\ text[start + whole] = ".")
                           THEN start + whole + part
                           ELSE start + whole - 1) - i + 1,
                  n |-> (IF text[i] = "-" THEN -1 ELSE 1)
                        * (digitsValue(text, start, whole) * Unit
                           + digitsValue(text, start + whole + 1,
                                         IF part > Digits THEN Digits ELSE part)
                             * 10 ^ (IF part > Digits THEN 0 ELSE Digits - part))]
        pointed(start, whole) ==
            literal(start, whole,
                    IF start + whole <= Len(text) /\ text[start + whole] = "."
                    THEN digitRun(text, start + whole + 1) ELSE 0)
        signed(start) == pointed(start, digitRun(text, start))
    IN  signed(IF i <= Len(text) /\ text[i] \in {"+", "-"} THEN i + 1 ELSE i)

\* Number.parseFloat: the longest decimal literal that leads the text, blanks
\* before it skipped; what follows the literal is ignored.
parseFloat(text) ==
    LET number(literal) == IF literal.len = 0 THEN NaN ELSE Num(literal.n)
    IN  number(decimalLiteral(text, skipBlanks(text, 1)))

\* Number(text) of a text: the whole text, blanks around it dropped, is one
\* decimal literal; the empty text is 0.
StringToNumber(text) ==
    LET whole(first, literal) ==
            IF literal.len > 0 /\ skipBlanks(text, first + literal.len) > Len(text)
            THEN Num(literal.n)
            ELSE NaN
        from(first) ==
            IF first > Len(text) THEN Num(0)
            ELSE whole(first, decimalLiteral(text, first))
    IN  from(skipBlanks(text, 1))

\* The digits of the natural number n, at least one.
digitsOf(n) ==
    LET count == CHOOSE k \in 1..12 : n < 10 ^ k /\ (k = 1 \/ n >= 10 ^ (k - 1))
    IN  [j \in 1..count |-> DigitChars[((n \div 10 ^ (count - j)) % 10) + 1]]

\* n.toFixed(places): the number rounded to that many decimal places, a tie
\* rounded away from zero, spelled with exactly that many places.
toFixed(n, places) ==
    LET step    == 10 ^ (Digits - places)
        size    == IF n < 0 THEN 0 - n ELSE n
        rounded == (size + step \div 2) \div step
        whole   == rounded \div 10 ^ places
        part    == rounded % 10 ^ places
        padded  == [j \in 1..places |-> DigitChars[((part \div 10 ^ (places - j)) % 10) + 1]]
        sign    == IF n < 0 THEN << "-" >> ELSE << >>
    IN  sign \o digitsOf(whole) \o (IF places > 0 THEN << "." >> \o padded ELSE << >>)

\* -------------------------------------------------- values of a JSON body
\* A value of a body is undefined (the member is absent), null, a number or a
\* text; an object is a record of such values.
Undefined == [type |-> "undefined"]
JNull == [type |-> "null"]
JNumber(n) == [type |-> "number", value |-> Num(n)]
JString(text) == [type |-> "string", value |-> text]

\* obj?.name: undefined when obj holds no such member.
member(obj, name) == IF name \in DOMAIN obj THEN obj[name] ELSE Undefined

\* text.trim()
trim(text) ==
    LET first == skipBlanks(text, 1)
        last  == CHOOSE k \in 0..Len(text) :
                     /\ \A j \in (k + 1)..Len(text) : text[j] = " "
                     /\ k = 0 \/ text[k] # " "
    IN  IF first > Len(text) THEN << >> ELSE SubSeq(text, first, last)

\* The conditions of JavaScript: is the value one an `if` takes?
truthy(value) ==
    CASE value.type = "number" -> ~isNaN(value.value) /\ value.value.n # 0
      [] value.type = "string" -> value.value # << >>
      [] OTHER -> FALSE

\* --------------------------------------------------------------- the data
GUID_EMPTY == "00000000-0000-0000-0000-000000000000"

\* A value that is absent (null or undefined in the source).
Null == << "<null>" >>

\* Text is a sequence of characters.  The words the form names are made of:
Words ==
    [Pediatric |-> << "P", "e", "d", "i", "a", "t", "r", "i", "c" >>,
     Pain |-> << "P", "a", "i", "n" >>,
     Interference |-> << "I", "n", "t", "e", "r", "f", "e", "r", "e", "n", "c", "e" >>,
     Short |-> << "S", "h", "o", "r", "t" >>,
     Form |-> << "F", "o", "r", "m" >>,
     sp |-> << " " >>]

\* The names and titles of forms: of the pediatric short form 8a, of a short
\* form for any population, one written without the blank of "Short Form",
\* one of an adult form, and one in capitals.
Names ==
    [PediatricShortForm8a |->
         Words.Pediatric \o Words.sp \o Words.Pain \o Words.sp
           \o Words.Interference \o Words.sp \o Words.Short \o Words.sp
           \o Words.Form \o Words.sp \o << "8", "a" >>,
     PainInterferenceShortForm |->
         Words.Pain \o Words.sp \o Words.Interference \o Words.sp
           \o Words.Short \o Words.sp \o Words.Form,
     PediatricNoSpace |->
         Words.Pediatric \o Words.sp \o Words.Pain \o Words.sp
           \o Words.Interference \o Words.sp \o Words.Short \o Words.Form,
     Adult |->
         << "A", "d", "u", "l", "t" >> \o Words.sp
           \o << "P", "h", "y", "s", "i", "c", "a", "l" >> \o Words.sp
           \o << "F", "u", "n", "c", "t", "i", "o", "n" >>,
     UpperCase |->
         << "P", "E", "D", "I", "A", "T", "R", "I", "C" >> \o Words.sp
           \o << "P", "A", "I", "N" >> \o Words.sp
           \o << "I", "N", "T", "E", "R", "F", "E", "R", "E", "N", "C", "E" >>
           \o Words.sp
           \o << "S", "H", "O", "R", "T" >> \o Words.sp \o << "F", "O", "R", "M" >>]

\* The forms of the rendered list: an adaptive one, the pediatric pain
\* interference short form known by its OID, one known by its name and one
\* known by its title.
PromisForms ==
    { [OID |-> "CAT", Name |-> Names.Adult, Title |-> Null],
      [OID |-> "154D0273", Name |-> Null, Title |-> Null],
      [OID |-> "PED8A", Name |-> Names.PediatricShortForm8a, Title |-> Null],
      [OID |-> "PED0", Name |-> Null, Title |-> Names.UpperCase] }

Forms == { form.OID : form \in PromisForms }

FormOf(oid) == CHOOSE form \in PromisForms : form.OID = oid

PAIN_INTERFERENCE_FORM_IDS == {"154D0273"}

UpperCase ==
    << "A", "B", "C", "D", "E", "F", "G", "H", "I", "J", "K", "L", "M",
       "N", "O", "P", "Q", "R", "S", "T", "U", "V", "W", "X", "Y", "Z" >>

\* String.prototype.toLowerCase, character by character.
toLowerCase(text) ==
    LET LowerCase ==
            << "a", "b", "c", "d", "e", "f", "g", "h", "i", "j", "k", "l", "m",
               "n", "o", "p", "q", "r", "s", "t", "u", "v", "w", "x", "y", "z" >>
    IN  [i \in DOMAIN text |->
            IF \E k \in DOMAIN UpperCase : UpperCase[k] = text[i]
            THEN LowerCase[CHOOSE k \in DOMAIN UpperCase : UpperCase[k] = text[i]]
            ELSE text[i]]

\* String.prototype.includes: part occurs in text as a substring.
includes(text, part) ==
    \E i \in 1..(Len(text) - Len(part) + 1) :
        SubSeq(text, i, i + Len(part) - 1) = part

\* (a name that is the first of Title and Name instead)
formNameTitleFirst(form) ==
    IF form.Title # Null THEN form.Title
    ELSE IF form.Name # Null THEN form.Name
    ELSE << >>

\* form?.Name ?? form?.Title ?? '': the name, or else the title.
formName(form) ==
    IF form.Name # Null THEN form.Name
    ELSE IF form.Title # Null THEN form.Title
    ELSE << >>

\* isPainInterferenceShortForm: the OID is a known one, or the lower-cased
\* name holds the three phrases.
isPainInterferenceShortForm(form) ==
    \/ form.OID # "" /\ form.OID \in PAIN_INTERFERENCE_FORM_IDS
    \/ LET name == toLowerCase(formName(form)) IN
          /\ includes(name, toLowerCase(Words.Pain \o Words.sp \o Words.Interference))
          /\ includes(name, toLowerCase(Words.Short \o Words.sp \o Words.Form))
          /\ includes(name, toLowerCase(Words.Pediatric))

NoItem == [ID |-> "", ItemOrder |-> JNumber(0), text |-> ""]

\* The item bank of the adaptive provider.  Which item comes next is the
\* provider's choice, a function of the responses it is sent: this bank
\* asks A first, then B, and has no item left after two responses.
Bank ==
    << [ID |-> "A", ItemOrder |-> JNumber(0), text |-> "How bad?"],
       [ID |-> "B", ItemOrder |-> JNumber(0), text |-> ""] >>

AdaptiveItem(responses) ==
    Bank[Len(responses) + 1]

\* The form-detail document the provider holds for a form (data.Items, in
\* the order of the document); a form is reference data, its document does
\* not change. The document of PED0 holds no item.
FormDetails(f) ==
    IF f = "PED0" THEN << >>
    ELSE << [ID |-> "Q2", ItemOrder |-> JNumber(2 * Unit), text |-> "Sleep?"],
            [ID |-> "Q1", ItemOrder |-> JNumber(Unit), text |-> ""] >>

NoDoc == << NoItem >>

\* The radio inputs renderAssessmentQuestion makes of an item's options, by
\* what they carry: dataset.responseKey and dataset.responseLabel (B's option
\* has no label).
radioInputs(item) ==
    IF item.ID = "B"
    THEN { [responseKey |-> "k2", responseLabel |-> ""] }
    ELSE { [responseKey |-> "k1", responseLabel |-> "Never"] }

NullPayload == [null |-> TRUE, Items |-> << >>, Theta |-> Undefined]

\* Payloads of a successful stateless request: one further item, or none.
\* The provider lists the item to ask first, then those it may ask later.
ItemPayload(responses) ==
    [null |-> FALSE,
     Items |-> << AdaptiveItem(responses) >> \o SubSeq(Bank, Len(responses) + 2, Len(Bank)),
     Theta |-> Undefined]

\* The provider's payload that ends an adaptive assessment, and the one that
\* scores a fixed one.
FinalPayload ==
    [null |-> FALSE, Items |-> << >>, Theta |-> JNumber((2 * Unit) \div 10)]

ScorePayload ==
    [null |-> FALSE, Items |-> << >>, Theta |-> JNumber((15 * Unit) \div 10)]

\* ------------------------------------------------- the order of the items
\* The spelling of the identifiers of the model.
chars(id) ==
    CASE id = ""    -> << >>
      [] id = "A"   -> << "A" >>
      [] id = "B"   -> << "B" >>
      [] id = "X"   -> << "X" >>
      [] id = "Q1"  -> << "Q", "1" >>
      [] id = "Q2"  -> << "Q", "2" >>
      [] id = "Q10" -> << "Q", "1", "0" >>
      [] id = "2B"  -> << "2", "B" >>

\* The characters of the model's texts in the order String.localeCompare
\* gives them: the blank, the brackets, the digits, the letters.
Collation == << " ", "(", ")" >> \o DigitChars \o UpperCase

\* a.localeCompare(b) for texts of these characters: negative, zero or
\* positive as a sorts before, with or after b.
localeCompare(a, b) ==
    LET rank(c) == CHOOSE k \in DOMAIN Collation : Collation[k] = c
        shorter == IF Len(a) < Len(b) THEN Len(a) ELSE Len(b)
        differ  == { i \in 1..shorter : a[i] # b[i] }
        first   == CHOOSE i \in differ : \A j \in differ : i <= j
    IN  IF differ # { }
        THEN IF rank(a[first]) < rank(b[first]) THEN -1 ELSE 1
        ELSE IF Len(a) < Len(b) THEN -1
        ELSE IF Len(a) > Len(b) THEN 1
        ELSE 0

\* Number(value) for a value of a body.
Number(value) ==
    CASE value.type = "number" -> value.value
      [] value.type = "string" -> StringToNumber(value.value)
      [] value.type = "null"   -> Num(0)
      [] OTHER                 -> NaN

\* Number.MAX_SAFE_INTEGER: the greatest number the model holds stands for it.
MAX_SAFE_INTEGER == Num(2147483647)

\* extractLeadingNumber: text.match(/\d+/), the first run of digits of the
\* text wherever it begins, as a number.
extractLeadingNumber(text) ==
    LET found == { i \in 1..Len(text) : isDigit(text[i]) }
        first == CHOOSE i \in found : \A j \in found : i <= j
    IN  IF text = << >> \/ found = { } THEN Undefined
        ELSE JNumber(digitsValue(text, first, digitRun(text, first)) * Unit)

\* The candidates of getItemOrder, in its order.
itemOrderCandidates(item) ==
    << member(item, "ItemOrder"), member(item, "Order"),
       member(item, "Sequence"), member(item, "QuestionNumber"),
       member(item, "ItemPosition"), member(item, "Position"),
       extractLeadingNumber(chars(item.ID)) >>

\* getItemOrder: the first candidate that Number() turns into a number.
firstNumeric(numbers) ==
    LET numeric == { i \in DOMAIN numbers : ~isNaN(numbers[i]) }
    IN  IF numeric = { } THEN MAX_SAFE_INTEGER
        ELSE numbers[CHOOSE i \in numeric : \A j \in numeric : i <= j]

getItemOrder(item) ==
    firstNumeric([i \in 1..7 |-> Number(itemOrderCandidates(item)[i])])

\* compareItems(a, b): negative, zero or positive; the order first, then the
\* identifier.
\* orderA !== orderB ? orderA - orderB : idA.localeCompare(idB)
orderThenText(orderA, orderB, textA, textB) ==
    IF orderA # orderB
    THEN IF orderA.n < orderB.n THEN -1 ELSE 1
    ELSE localeCompare(textA, textB)

compareItems(a, b) ==
    orderThenText(getItemOrder(a), getItemOrder(b), chars(a.ID), chars(b.ID))

\* Array.prototype.sort: the elements in ascending order, those that compare
\* equal in the order they had. compared[j, i] is what the comparison
\* function returns for the elements at j and i.
sort(items, compared) ==
    LET n == Len(items)
        before(i) == { j \in 1..n :
                         \/ compared[j, i] < 0
                         \/ compared[j, i] = 0 /\ j < i }
    IN  [k \in 1..n |->
            items[CHOOSE i \in 1..n : Cardinality(before(i)) = k - 1]]

\* (the items in the order of the document, not sorted)
unsortedItems(data) ==
    data

\* getOrderedItems: a sorted copy of data.Items.
getOrderedItems(data) ==
    sort(data, [j \in DOMAIN data, i \in DOMAIN data |->
                   compareItems(data[j], data[i])])

\* (a document whose own Items were sorted)
sortedInPlace(data) ==
    sort(data, [j \in DOMAIN data, i \in DOMAIN data |->
                   compareItems(data[j], data[i])])

\* The document once getOrderedItems has run on it: the copy was sorted, the
\* document is as it was.
afterGetOrderedItems(data) ==
    data

\* extractQuestionText: the first description, else the identifier.
extractQuestionText(item) ==
    IF item.text # "" THEN item.text ELSE item.ID

\* const shortForm = isPainInterferenceShortForm(form), for the forms of
\* the list: the OIDs of those it holds of.
shortForms == { f \in Forms : isPainInterferenceShortForm(FormOf(f)) }

\* ------------------------------------------------------------ parseTScore
tScoreCandidatesResultsFirst(payload) ==
    << member(payload, "tScore"), member(payload, "TScore"),
       member(payload, "tscore"),
       member(member(payload, "Results"), "TScore"),
       member(member(payload, "Results"), "tScore"),
       member(member(payload, "Results"), "Score"),
       member(member(payload, "Score"), "TScore"),
       member(member(payload, "Score"), "tScore") >>

\* The fields parseTScore looks at, in its order.
tScoreCandidates(payload) ==
    << member(payload, "tScore"), member(payload, "TScore"),
       member(payload, "tscore"),
       member(member(payload, "Score"), "TScore"),
       member(member(payload, "Score"), "tScore"),
       member(member(payload, "Results"), "TScore"),
       member(member(payload, "Results"), "tScore"),
       member(member(payload, "Results"), "Score") >>

\* One turn of parseTScore's loop: the number the candidate yields, or
\* undefined when the loop goes on to the next one.
candidateScore(value) ==
    LET parsed(numeric) ==
            IF isNaN(numeric) THEN Undefined
            ELSE [type |-> "number", value |-> numeric]
    IN  IF value.type = "number" /\ ~isNaN(value.value) THEN value
        ELSE IF value.type = "string" /\ trim(value.value) # << >>
        THEN parsed(parseFloat(value.value))
        ELSE Undefined

parseTScore(payload) ==
    LET first(scores) ==
            LET found == { i \in DOMAIN scores : scores[i].type = "number" }
            IN  IF found = { } THEN Undefined
                ELSE scores[CHOOSE i \in found : \A j \in found : i <= j]
    IN  IF payload.null THEN Undefined
        ELSE first([i \in 1..8 |-> candidateScore(tScoreCandidates(payload)[i])])

\* -------------------------------------- the routes' T score, server side
\* thetaNumeric of both routes: payload.Theta as a number, undefined when
\* the payload holds none.
thetaNumeric(payload) ==
    LET Theta == member(payload, "Theta") IN
    IF payload.null THEN Undefined
    ELSE IF Theta.type = "number" THEN Theta
    ELSE IF truthy(Theta)
    THEN [type |-> "number", value |-> parseFloat(Theta.value)]
    ELSE Undefined

\* The payload with tScore and TScore set to the score given.
withTScore(payload, tScore) ==
    [name \in DOMAIN payload \cup {"tScore", "TScore"} |->
        IF name \in {"tScore", "TScore"} THEN tScore ELSE payload[name]]

\* (the score attached as computed, not rounded)
attachTScoreUnrounded(payload) ==
    LET theta == thetaNumeric(payload) IN
    IF theta.type = "number" /\ ~isNaN(theta.value)
    THEN withTScore(payload, JNumber(theta.value.n * 10 + 50 * Unit))
    ELSE payload

\* Both routes, before they reply: payload.tScore and payload.TScore are set
\* to theta * 10 + 50, spelled with four places and read back.
attachTScore(payload) ==
    LET derived(theta) ==
            IF theta.type = "number" /\ ~isNaN(theta.value)
            THEN withTScore(payload,
                     [type |-> "number",
                      value |-> parseFloat(toFixed(theta.value.n * 10
                                                     + 50 * Unit, 4))])
            ELSE payload
    IN  derived(thetaNumeric(payload))

\* renderAssessmentResults, its "T Score:" line: the text after the label, or
\* Null when the results show no such line.
tScoreText(payload) ==
    LET line(serverTScore, Theta, thetaNumber) ==
            IF truthy(Theta)
            THEN IF serverTScore.type = "number"
                 THEN toFixed(serverTScore.value.n, 1)
                 ELSE IF ~isNaN(thetaNumber)
                 THEN toFixed(thetaNumber.n * 10 + 50 * Unit, 1)
                 ELSE Null
            ELSE IF serverTScore.type = "number"
            THEN toFixed(serverTScore.value.n, 1)
            ELSE Null
        parsed(serverTScore, Theta) ==
            line(serverTScore, Theta,
                 IF Theta.type = "number" THEN Theta.value
                 ELSE IF Theta.type = "string" THEN parseFloat(Theta.value)
                 ELSE NaN)
    IN  parsed(parseTScore(payload),
               IF payload.null THEN Undefined ELSE member(payload, "Theta"))

\* ------------------------------------- the provider's client, server side
JArray(items) == [type |-> "array", value |-> items]

\* !formOid: no identifier was given (undefined, null or the empty text).
missing(formOid) == formOid \in {"", "<undefined>", "<null>"}

\* A response of the provider: its status line, whether its body parses as
\* JSON, and the value the body parses to. A response of status 0 stands for
\* none: the connection failed and fetch rejected.
ProviderResponse(ok, parses, data) ==
    [ok |-> ok, status |-> IF ok THEN 200 ELSE 500,
     statusText |-> IF ok THEN "OK" ELSE "Internal Server Error",
     parses |-> parses, data |-> data]

\* The body of a response that carries no payload of the assessment.
MessageBody(text) == [null |-> FALSE, Items |-> << >>, message |-> text]

\* safeJson: the body, or an object made of the status text when the body
\* does not parse.
safeJson(response) ==
    IF response.parses THEN response.data ELSE MessageBody(response.statusText)

\* throw new PromisError(message, statusCode, payload); `contacted` tells
\* whether the provider was called before. An error is a PromisError or not
\* (promis), and has a statusCode or not (coded).
PromisError(message, statusCode, payload, contacted) ==
    [threw |-> TRUE, contacted |-> contacted, message |-> message,
     promis |-> TRUE, coded |-> TRUE, statusCode |-> statusCode,
     data |-> payload]

\* request, once the provider has responded or the connection has failed:
\* the error fetch rejects with is not a PromisError and has no statusCode.
request(response) ==
    LET data == safeJson(response) IN
    IF response.status = 0
    THEN [threw |-> TRUE, contacted |-> TRUE, message |-> "request failed",
          promis |-> FALSE, coded |-> FALSE, statusCode |-> 0,
          data |-> Undefined]
    ELSE IF ~response.ok
    THEN PromisError("PROMIS API request failed", response.status, data, TRUE)
    ELSE [threw |-> FALSE, contacted |-> TRUE, message |-> "",
          promis |-> FALSE, coded |-> TRUE, statusCode |-> response.status,
          data |-> data]

listForms(response) ==
    request(response)

getFormDetails(formOid, response) ==
    IF missing(formOid)
    THEN PromisError("Form OID is required", 400, Undefined, FALSE)
    ELSE request(response)

fetchStatelessAssessmentItem(formOid, responses, response) ==
    IF missing(formOid)
    THEN PromisError("Form OID is required", 400, Undefined, FALSE)
    ELSE request(response)

\* (scoreFormResponses without its check of the responses)
scoreFormResponsesUnchecked(formOid, responses, response) ==
    IF missing(formOid)
    THEN PromisError("Form OID is required", 400, Undefined, FALSE)
    ELSE request(response)

scoreFormResponses(formOid, responses, response) ==
    IF missing(formOid)
    THEN PromisError("Form OID is required", 400, Undefined, FALSE)
    ELSE IF responses.type # "array" \/ Len(responses.value) = 0
    THEN PromisError("Responses payload is required for scoring", 400,
                     Undefined, FALSE)
    ELSE request(response)

\* ------------------------------------------------------------- the routes
\* What a route answers the browser: res.status(status).json(body).
Reply(status, body, contacted) ==
    [ok |-> status \in 200..299, status |-> status, body |-> body,
     contacted |-> contacted]

\* The body of a route's catch block.
ErrorBody(message, details) ==
    [null |-> FALSE, Items |-> << >>, message |-> message, details |-> details]

\* responses ?? [], and the parameter's default.
orEmpty(responses) ==
    IF responses.type \in {"undefined", "null"} THEN JArray(<< >>)
    ELSE responses

\* (a catch block that answers every failure with 500)
statusAlways500(error) ==
    500

\* error.statusCode ?? 500, the status of the catch blocks of the form-detail,
\* stateless and score routes, whether the error is a PromisError or not.
statusOr500(error) ==
    IF error.coded THEN error.statusCode ELSE 500

\* isPediatricForm of the server: the OID is the known one, or the name,
\* title, description, population and keywords, joined by blanks and
\* lower-cased, hold 'pediatric'. The forms of the model carry a name and a
\* title only.
isPediatricForm(form) ==
    \/ form.OID \in {"154D0273"}
    \/ includes(toLowerCase((IF form.Name = Null THEN << >> ELSE form.Name)
                               \o Words.sp
                               \o (IF form.Title = Null THEN << >> ELSE form.Title)
                               \o Words.sp \o Words.sp \o Words.sp),
                toLowerCase(Words.Pediatric))

\* GET /api/promis/forms
formsRoute(category, response) ==
    LET listed(forms) ==
            [null |-> FALSE, Items |-> << >>,
             forms |-> IF category = "pediatric"
                       THEN SelectSeq(forms, isPediatricForm) ELSE forms]
        \* the catch block: a PromisError's statusCode as it is, another
        \* error's statusCode ?? 500
        formsStatus(error) ==
            IF error.promis THEN error.statusCode ELSE statusOr500(error)
        answered(result) ==
            IF result.threw
            THEN Reply(formsStatus(result),
                       ErrorBody("Failed to fetch PROMIS forms", result.message),
                       result.contacted)
            ELSE Reply(200,
                       listed(IF member(result.data, "Form").type = "array"
                              THEN result.data.Form.value ELSE << >>),
                       result.contacted)
    IN  answered(listForms(response))

\* GET /api/promis/forms/:oid
detailsRoute(oid, response) ==
    LET answered(result) ==
            IF result.threw
            THEN Reply(statusOr500(result),
                       ErrorBody("Failed to fetch form details", result.message),
                       result.contacted)
            ELSE Reply(200, result.data, result.contacted)
    IN  IF missing(oid)
        THEN Reply(400, MessageBody("OID parameter is required"), FALSE)
        ELSE answered(getFormDetails(oid, response))

\* POST /api/promis/forms/:oid/stateless
statelessRoute(oid, responses, response) ==
    IF missing(oid)
    THEN Reply(400, MessageBody("OID parameter is required"), FALSE)
    ELSE LET result == fetchStatelessAssessmentItem(oid, orEmpty(responses),
                                                    response)
         IN  IF result.threw
             THEN Reply(statusOr500(result),
                        ErrorBody("Failed to fetch next assessment item",
                                  result.message),
                        result.contacted)
             ELSE Reply(200, attachTScore(result.data), result.contacted)

\* POST /api/promis/forms/:oid/score
scoreRoute(oid, responses, response) ==
    IF missing(oid)
    THEN Reply(400, MessageBody("OID parameter is required"), FALSE)
    ELSE IF responses.type # "array" \/ Len(responses.value) = 0
    THEN Reply(400, MessageBody("Responses array is required for scoring"),
               FALSE)
    ELSE LET result == scoreFormResponses(oid, responses, response)
         IN  IF result.threw
             THEN Reply(statusOr500(result),
                        ErrorBody("Failed to score assessment responses",
                                  result.message),
                        result.contacted)
             ELSE Reply(200, attachTScore(result.data), result.contacted)

\* fetchStatelessAssessment and scoreFixedAssessment in the browser, once
\* the route has answered: the payload, or an error thrown.
fetchStatelessAssessment(reply) ==
    [threw |-> ~reply.ok, payload |-> reply.body]

scoreFixedAssessment(reply) ==
    [threw |-> ~reply.ok, payload |-> reply.body]

\* The payloads fetchStatelessAssessment returns that hold no item, and those
\* scoreFixedAssessment returns, when the provider's body is the JSON of its
\* payload; neither depends on the responses sent.
FinalPayloads ==
    { fetchStatelessAssessment(
          statelessRoute(f, JArray(<< >>),
                         ProviderResponse(TRUE, TRUE, FinalPayload))).payload :
        f \in Forms }

ScorePayloads ==
    { scoreFixedAssessment(
          scoreRoute(f, JArray(<< NoItem >>),
                     ProviderResponse(TRUE, TRUE, ScorePayload))).payload :
        f \in Forms }

\* The payload fetchStatelessAssessment returns that holds a further item,
\* by the number of responses sent: the provider's choice depends on no more.
ItemPayloads ==
    [n \in 0..(Len(Bank) - 1) |->
        fetchStatelessAssessment(
            statelessRoute("CAT", JArray([i \in 1..n |-> NoItem]),
                           ProviderResponse(TRUE, TRUE,
                               ItemPayload([i \in 1..n |-> NoItem])))).payload]

\* What they return when the provider answers 200 with a body that is no JSON.
FallbackPayloads ==
    { fetchStatelessAssessment(
          statelessRoute(f, JArray(<< >>),
                         ProviderResponse(TRUE, FALSE, Undefined))).payload :
        f \in Forms }

\* ---------------------------------------------------------------- state
VARIABLES
    assessmentSessions,  \* form OID -> session object (0: no entry)
    sess,                \* the session objects, by identity 1..MaxSessions
    view,                \* what each attached assessment container shows
    reqs,                \* the requests in flight
    promisDetailsCache,  \* form OID -> cached form-detail document
    created,             \* number of session objects created so far
    rendered,            \* the form list and its containers are on the page
    listed,              \* the forms of the list the server returns
    scored,              \* sessions whose results view was rendered
    scoreCalls,          \* per session, calls of scoreFixedAssessment
    ev,                  \* the last step taken
    arg,                 \* the argument of a call of a pure function
    ret,                 \* what the call returned
    monitoringEnabled,   \* main.js: monitoring is on, as the buttons show it
    configPromise,       \* HumeMonitor.configPromise
    starts,              \* the calls of startMonitoring under way
    started,             \* number of calls of startMonitoring made so far
    readyState,          \* the streaming sockets, by the call that made them
    socket,              \* HumeMonitor.socket (0: null)
    serverReady,         \* HumeMonitor.serverReady
    timers,              \* the capture intervals set and not cleared
    videoTimer,          \* HumeMonitor.videoTimer (0: null)
    recorders,           \* the batch recorders, by the call that made them
    batchRecorder,       \* HumeMonitor.batchRecorder (0: null)
    encoding,            \* calls of captureFrame awaiting their encoded frame
    awaiting,            \* per socket, frames sent and not yet replied to
    hev,                 \* the last step of the monitor
    running,             \* RunnerGame.running
    scheduled,           \* animation-frame callbacks of loop pending
    frame,               \* RunnerGame.frame
    score,               \* RunnerGame.score
    updates              \* runs of update() since the last animation frame

vars == << assessmentSessions, sess, view, reqs, promisDetailsCache,
           created, rendered, listed, scored, scoreCalls, ev, arg, ret,
           monitoringEnabled, configPromise, starts, started, readyState, socket,
           serverReady, timers, videoTimer, recorders, batchRecorder,
           encoding, awaiting, hev, running, scheduled, frame, score,
           updates >>

\* The state of the monitor (main.js and HumeMonitor), and that of the game.
monitor == << monitoringEnabled, configPromise, starts, started, readyState, socket,
              serverReady, timers, videoTimer, recorders, batchRecorder,
              encoding, awaiting, hev >>
runner == << running, scheduled, frame, score, updates >>

\* The state of the assessment engine, and that of a call of a function.
engine == << assessmentSessions, sess, view, reqs, promisDetailsCache,
             created, rendered, listed, scored, scoreCalls, ev >>
call == << arg, ret >>

SessIds == 1..MaxSessions

NoSession ==
    [mode |-> "none", responses |-> << >>, history |-> << >>, items |-> << >>,
     currentIndex |-> 0, lastPayload |-> NullPayload, currentItem |-> NoItem]

NoRollback == [has |-> FALSE, responses |-> << >>, history |-> << >>]

EmptyView == [kind |-> "empty", sess |-> 0, item |-> NoItem, allowSkip |-> FALSE]

Text(k) == [kind |-> k, sess |-> 0, item |-> NoItem, allowSkip |-> FALSE]

Event(op, f, s, a) == [op |-> op, form |-> f, sess |-> s, asess |-> a]

NoRet == [done |-> FALSE, value |-> FALSE]

Returned(v) == [done |-> TRUE, value |-> v]

EngineInit ==
    /\ assessmentSessions = [f \in Forms |-> 0]
    /\ sess = [s \in SessIds |-> NoSession]
    /\ view = [f \in Forms |-> EmptyView]
    /\ reqs = {}
    /\ promisDetailsCache = [f \in Forms |-> NoDoc]
    /\ created = 0
    /\ rendered = FALSE
    /\ listed \in { {f} : f \in Forms }
    /\ scored = {}
    /\ scoreCalls = [s \in SessIds |-> 0]
    /\ ev = Event("init", "", 0, 0)
    /\ monitoringEnabled = FALSE
    /\ configPromise = "null"
    /\ starts = { }
    /\ started = 0
    /\ readyState = [k \in 1..MaxStarts |-> "none"]
    /\ socket = 0
    /\ serverReady = TRUE
    /\ timers = { }
    /\ videoTimer = 0
    /\ recorders = [k \in 1..MaxStarts |-> "none"]
    /\ batchRecorder = 0
    /\ encoding = 0
    /\ awaiting = [k \in 1..MaxStarts |-> 0]
    /\ hev = [op |-> "init", on |-> 0]
    /\ running = FALSE
    /\ scheduled = 0
    /\ frame = 0
    /\ score = 0
    /\ updates = 0

Init ==
    /\ EngineInit
    /\ arg = [none |-> TRUE]
    /\ ret = NoRet

\* The state before a function is called on one of `inputs`.
InitCall(inputs) ==
    /\ EngineInit
    /\ arg \in inputs
    /\ ret = NoRet

\* ------------------------------------------------------------- helpers
\* A request can be sent: the model keeps at most MaxInflight requests in
\* flight, no two of them alike.
CanSend(r) == Cardinality(reqs) < MaxInflight /\ r \notin reqs

Send(r) == reqs \cup {r}

QuestionView(s, item, skip) ==
    [kind |-> "question", sess |-> s, item |-> item, allowSkip |-> skip]

ResultsView(s) ==
    [kind |-> "results", sess |-> s, item |-> NoItem, allowSkip |-> FALSE]

\* container.innerHTML = ...: seen only while the container is attached.
Render(f, live, v) ==
    IF live THEN [view EXCEPT ![f] = v] ELSE view

\* The session objects that are still referred to once a step is done: by
\* the store, by the handlers of a rendered question, by the frame awaiting
\* a request, and by the step itself.
Refs ==
    { assessmentSessions'[f] : f \in Forms } \cup { view'[f].sess : f \in Forms }
      \cup { r.sess : r \in reqs' } \cup { r.asess : r \in reqs' }
      \cup { ev'.sess, ev'.asess }

\* The heap h after the step: an object nothing refers to any more is
\* unreachable garbage and is left out.
Heap(h) ==
    [s \in SessIds |-> IF s \in Refs THEN h[s] ELSE NoSession]

\* --------------------------------------------------- renderPromisForms
\* The form list arrives (loadPediatricForms): the store is cleared and the
\* list is rebuilt, which detaches every container rendered before.
renderPromisForms ==
    /\ rendered' = TRUE
    /\ assessmentSessions' = [f \in Forms |-> 0]
    /\ view' = [f \in Forms |-> EmptyView]
    /\ reqs' = { [r EXCEPT !.live = FALSE] : r \in reqs }
    /\ ev' = Event("render", "", 0, 0)
    /\ UNCHANGED << promisDetailsCache, created, listed, scored, scoreCalls >>
    /\ sess' = Heap(sess)

\* ------------------------------------------------ startPromisAssessment
\* (a new session that is merged with the one created before it)
NewAdaptiveMerged ==
    [mode |-> "stateless",
     responses |-> IF created > 0 THEN sess[created].responses ELSE << >>,
     history |-> IF created > 0 THEN sess[created].history ELSE << >>,
     items |-> << >>,
     currentIndex |-> 0, lastPayload |-> NullPayload, currentItem |-> NoItem]

NewAdaptive ==
    [mode |-> "stateless", responses |-> << >>, history |-> << >>, items |-> << >>,
     currentIndex |-> 0, lastPayload |-> NullPayload, currentItem |-> NoItem]

\* (a session of the short form that is created in stateless mode)
NewFixedStateless(items) ==
    [mode |-> "stateless", responses |-> << >>, history |-> << >>, items |-> items,
     currentIndex |-> 0, lastPayload |-> NullPayload, currentItem |-> NoItem]

\* (a fixed session whose cursor starts at the second item)
NewFixedAtOne(items) ==
    [mode |-> "fixed", responses |-> << >>, history |-> << >>, items |-> items,
     currentIndex |-> 1, lastPayload |-> NullPayload, currentItem |-> NoItem]

NewFixed(items) ==
    [mode |-> "fixed", responses |-> << >>, history |-> << >>, items |-> items,
     currentIndex |-> 0, lastPayload |-> NullPayload, currentItem |-> NoItem]

\* The requests in flight.  sess is the session object the awaiting frame
\* holds; asess is the session object of the handler that sent the request
\* (0 when startPromisAssessment sent it); live tells whether the container
\* the frame holds is still attached to the page.
Request(kind, f, s, rollbackState, body, a) ==
    [kind |-> kind, form |-> f, sess |-> s, rollback |-> rollbackState,
     body |-> body, live |-> TRUE, asess |-> a]

\* The adaptive branch: the new session replaces the stored one, and
\* loadNextAssessmentItem sends the first request with its empty list.
startAdaptive(f) ==
    LET s == created + 1
        r == Request("next", f, s, NoRollback, << >>, 0)
    IN  /\ rendered
        /\ f \notin shortForms
        /\ created < MaxSessions
        /\ CanSend(r)
        /\ created' = s
        /\ assessmentSessions' = [assessmentSessions EXCEPT ![f] = s]
        /\ view' = [view EXCEPT ![f] = Text("loading")]
        /\ reqs' = Send(r)
        /\ ev' = Event("startAdaptive", f, s, 0)
        /\ UNCHANGED << promisDetailsCache, rendered, listed, scored, scoreCalls >>
        /\ sess' = Heap([sess EXCEPT ![s] = NewAdaptive])

\* (a short form whose questions carry the Skip Item button)
allowSkipFixedOn == TRUE

\* allowSkip of the questions of a fixed session.
allowSkipFixed == FALSE

\* (a fixed branch that stores the session before it looks at the items)
fixedWithDetailsStoreFirst(f, details, live, op) ==
    LET items == getOrderedItems(details)
        s == created + 1
    IN  /\ created < MaxSessions
        /\ created' = s
        /\ assessmentSessions' = [assessmentSessions EXCEPT ![f] = s]
        /\ ev' = Event(op, f, s, 0)
        /\ view' = Render(f, live, IF Len(items) = 0 THEN Text("noitems")
                                   ELSE QuestionView(s, items[1], allowSkipFixed))

\* The fixed branch once fetchFormDetails has returned `details`.
fixedWithDetails(f, details, live, op) ==
    LET items == getOrderedItems(details) IN
    IF Len(items) = 0
    THEN /\ view' = Render(f, live, Text("noitems"))
         /\ ev' = Event(op, f, 0, 0)
         /\ UNCHANGED << assessmentSessions, created >>
    ELSE /\ created < MaxSessions
         /\ LET s == created + 1 IN
             /\ created' = s
             /\ assessmentSessions' = [assessmentSessions EXCEPT ![f] = s]
             /\ view' = Render(f, live, QuestionView(s, items[1], allowSkipFixed))
             /\ ev' = Event(op, f, s, 0)

\* The session objects after the fixed branch has run on `details`.
fixedHeap(details) ==
    LET items == getOrderedItems(details) IN
    IF Len(items) = 0 THEN sess ELSE [sess EXCEPT ![created + 1] = NewFixed(items)]

\* (a cache that is never found to hold a document)
cacheHasNever(f) ==
    FALSE

\* promisDetailsCache.has(formOid)
cacheHas(f) ==
    promisDetailsCache[f] # NoDoc

\* Start Assessment on the short form with the document already cached:
\* fetchFormDetails returns the cached document.
startFixedCached(f) ==
    /\ rendered
    /\ f \in shortForms
    /\ cacheHas(f)
    /\ fixedWithDetails(f, promisDetailsCache[f], TRUE, "startFixed")
    /\ promisDetailsCache' =
           [promisDetailsCache EXCEPT ![f] = afterGetOrderedItems(@)]
    /\ UNCHANGED << reqs, rendered, listed, scored, scoreCalls >>
    /\ sess' = Heap(fixedHeap(promisDetailsCache[f]))

\* Start Assessment on the short form, the document not cached: the
\* form-detail request is sent.
startFixedFetch(f) ==
    LET r == Request("details", f, 0, NoRollback, << >>, 0) IN
    /\ rendered
    /\ f \in shortForms
    /\ ~cacheHas(f)
    /\ CanSend(r)
    /\ view' = [view EXCEPT ![f] = Text("preparing")]
    /\ reqs' = Send(r)
    /\ ev' = Event("startFixedFetch", f, 0, 0)
    /\ UNCHANGED << assessmentSessions, promisDetailsCache, created,
                    rendered, listed, scored, scoreCalls >>
    /\ sess' = Heap(sess)

\* The form-detail request r succeeds with document d.
detailsArrive(r, d) ==
    /\ r.kind = "details"
    /\ promisDetailsCache' =
           [promisDetailsCache EXCEPT ![r.form] = afterGetOrderedItems(d)]
    /\ fixedWithDetails(r.form, d, r.live, "detailsOk")
    /\ reqs' = reqs \ {r}
    /\ UNCHANGED << rendered, listed, scored, scoreCalls >>
    /\ sess' = Heap(fixedHeap(d))

\* The form-detail request r fails.
detailsFail(r) ==
    /\ r.kind = "details"
    /\ view' = Render(r.form, r.live, Text("error"))
    /\ reqs' = reqs \ {r}
    /\ ev' = Event("detailsFail", r.form, 0, 0)
    /\ UNCHANGED << assessmentSessions, promisDetailsCache, created,
                    rendered, listed, scored, scoreCalls >>
    /\ sess' = Heap(sess)

\* ---------------------------------------------- loadNextAssessmentItem
\* (a session that takes the last item of the payload)
takeItemLast(S, p) ==
    [S EXCEPT !.lastPayload = p, !.currentItem = p.Items[Len(p.Items)]]

\* The try block with a payload that holds an item: the session takes the
\* payload and its first item.
takeItem(S, p) ==
    [S EXCEPT !.lastPayload = p, !.currentItem = p.Items[1]]

\* The stateless request r succeeds with a further item: the session the
\* frame captured before the await takes it and the question is rendered,
\* bound to that session.
nextItemArrives(r) ==
    LET p == ItemPayloads[Len(r.body)] IN
    /\ r.kind = "next"
    /\ Len(r.body) < Len(Bank)
    /\ view' = Render(r.form, r.live,
                      QuestionView(r.sess, takeItem(sess[r.sess], p).currentItem, TRUE))
    /\ ev' = Event("nextItem", r.form, r.sess, r.asess)
    /\ reqs' = reqs \ {r}
    /\ UNCHANGED << assessmentSessions, promisDetailsCache, created, rendered,
                    listed, scored, scoreCalls >>
    /\ sess' = Heap([sess EXCEPT ![r.sess] = takeItem(sess[r.sess], p)])

\* assessmentSessions.delete(formOid).
deleteSession(f) ==
    [assessmentSessions EXCEPT ![f] = 0]

\* The stateless request r succeeds with no item: the results are rendered
\* and the entry of the form is deleted from the store.
nextFinalArrives(r, p) ==
    /\ r.kind = "next"
    /\ view' = Render(r.form, r.live, ResultsView(r.sess))
    /\ assessmentSessions' = deleteSession(r.form)
    /\ scored' = scored \cup {r.sess}
    /\ ev' = Event("nextFinal", r.form, r.sess, r.asess)
    /\ reqs' = reqs \ {r}
    /\ UNCHANGED << promisDetailsCache, created, rendered, listed, scoreCalls >>
    /\ sess' = Heap([sess EXCEPT ![r.sess].lastPayload = p])

\* (a catch block that restores the responses and forgets the history)
rollbackResponsesOnly(S, rollbackState) ==
    IF rollbackState.has
    THEN [S EXCEPT !.responses = rollbackState.responses]
    ELSE S

\* The catch block: what a failed stateless request does to its session.
rollback(S, rollbackState) ==
    IF rollbackState.has
    THEN [S EXCEPT !.responses = rollbackState.responses,
                   !.history = rollbackState.history]
    ELSE S

\* The stateless request r fails: fetchStatelessAssessment throws.
nextFails(r) ==
    /\ r.kind = "next"
    /\ view' = Render(r.form, r.live, Text("error"))
    /\ ev' = Event("nextFail", r.form, r.sess, r.asess)
    /\ reqs' = reqs \ {r}
    /\ UNCHANGED << assessmentSessions, promisDetailsCache, created, rendered,
                    listed, scored, scoreCalls >>
    /\ sess' = Heap([sess EXCEPT ![r.sess] = rollback(sess[r.sess], r.rollback)])

\* ---------------------------------------------- completeFixedAssessment
\* The score request r succeeds.
scoreArrives(r, p) ==
    /\ r.kind = "score"
    /\ view' = Render(r.form, r.live, ResultsView(r.sess))
    /\ assessmentSessions' = deleteSession(r.form)
    /\ scored' = scored \cup {r.sess}
    /\ ev' = Event("scoreOk", r.form, r.sess, r.asess)
    /\ reqs' = reqs \ {r}
    /\ UNCHANGED << promisDetailsCache, created, rendered, listed, scoreCalls >>
    /\ sess' = Heap([sess EXCEPT ![r.sess].lastPayload = p])

\* The score request r fails: scoreFixedAssessment throws.
scoreFails(r) ==
    /\ r.kind = "score"
    /\ view' = Render(r.form, r.live, Text("error"))
    /\ ev' = Event("scoreFail", r.form, r.sess, r.asess)
    /\ reqs' = reqs \ {r}
    /\ UNCHANGED << assessmentSessions, promisDetailsCache, created,
                    rendered, listed, scored, scoreCalls >>
    /\ sess' = Heap(sess)

\* ------------------------------------ renderAssessmentQuestion handlers
\* (a sequence number that counts from 0)
responseOrderFromZero(S) ==
    Len(S.responses)

\* responseOrder of the entry a handler appends to session S.
responseOrder(S) ==
    Len(S.responses) + 1

\* The snapshot a handler takes before it appends.
snapshot(S) ==
    [has |-> TRUE, responses |-> S.responses, history |-> S.history]

\* The session after the handler has appended its two entries.
appendEntries(S, responseEntry, historyEntry) ==
    [S EXCEPT !.responses = Append(S.responses, responseEntry),
              !.history = Append(S.history, historyEntry)]

\* A handler of the question shown for form f calls loadNextAssessmentItem
\* after it has replaced the session object a by S1: the request is made
\* for the session the store holds for f at that moment, if any.
loadFromHandler(f, a, S1, rollbackState, op) ==
    LET after == [sess EXCEPT ![a] = S1]
        t == assessmentSessions[f]
        r == Request("next", f, t, rollbackState, after[t].responses, a)
    IN  /\ t # 0 => CanSend(r)
        /\ view' = [view EXCEPT ![f] = Text("loading")]
        /\ reqs' = IF t = 0 THEN reqs ELSE Send(r)
        /\ ev' = Event(op, f, t, a)
        /\ UNCHANGED << assessmentSessions, promisDetailsCache, created,
                        rendered, listed, scored, scoreCalls >>
        /\ sess' = Heap(after)

\* (a bounds test that stops one item short of the list)
withinItemsShort(S) ==
    S.currentIndex + 1 < Len(S.items)

\* The cursor is still within the item list of the fixed session S.
withinItems(S) ==
    S.currentIndex < Len(S.items)

\* (a cursor that stays where it is)
nextIndexSame(S) ==
    S.currentIndex

\* activeSession.currentIndex = (activeSession.currentIndex ?? 0) + 1.
nextIndex(S) ==
    S.currentIndex + 1

\* The fixed branch of the submit handler: the cursor moves on, and the
\* next question is rendered or the score request is sent.
fixedAdvance(f, a, S1) ==
    LET S2 == [S1 EXCEPT !.currentIndex = nextIndex(S1)]
        r == Request("score", f, a, NoRollback, S2.responses, a)
    IN
    /\ IF withinItems(S2)
       THEN /\ view' = [view EXCEPT ![f] =
                            QuestionView(a, S2.items[S2.currentIndex + 1], allowSkipFixed)]
            /\ ev' = Event("submitFixed", f, a, a)
            /\ UNCHANGED << reqs, scoreCalls >>
       ELSE /\ CanSend(r)
            /\ view' = [view EXCEPT ![f] = Text("scoring")]
            /\ reqs' = Send(r)
            /\ scoreCalls' = [scoreCalls EXCEPT ![a] = @ + 1]
            /\ ev' = Event("submitLast", f, a, a)
    /\ UNCHANGED << assessmentSessions, promisDetailsCache, created, rendered,
                    listed, scored >>
    /\ sess' = Heap([sess EXCEPT ![a] = S2])

\* The submit handler of the question shown for form f, option opt checked.
submitAnswer(f, opt) ==
    /\ view[f].kind = "question"
    /\ opt \in radioInputs(view[f].item)
    /\ LET a == view[f].sess
           item == view[f].item
           S == sess[a]
           rollbackState == IF S.mode = "stateless" THEN snapshot(S) ELSE NoRollback
           responseEntry == [ItemID |-> item.ID,
                             ItemResponseOID |-> opt.responseKey,
                             Order |-> responseOrder(S)]
           historyEntry == [itemId |-> item.ID,
                            question |-> extractQuestionText(item),
                            response |-> IF opt.responseLabel # ""
                                         THEN opt.responseLabel
                                         ELSE opt.responseKey,
                            skipped |-> FALSE]
           S1 == appendEntries(S, responseEntry, historyEntry)
       IN  IF S.mode = "stateless"
           THEN loadFromHandler(f, a, S1, rollbackState, "submit")
           ELSE fixedAdvance(f, a, S1)

\* (a history entry of a skip that is not marked as one)
skippedEntryUnmarked(item) ==
    [itemId |-> item.ID,
     question |-> extractQuestionText(item),
     response |-> "Skipped",
     skipped |-> FALSE]

\* historyEntry of the skip handler.
skippedEntry(item) ==
    [itemId |-> item.ID,
     question |-> extractQuestionText(item),
     response |-> "Skipped",
     skipped |-> TRUE]

\* The click handler of the Skip Item button of the question shown for f.
skipItem(f) ==
    /\ view[f].kind = "question"
    /\ view[f].allowSkip
    /\ LET a == view[f].sess
           item == view[f].item
           S == sess[a]
           responseEntry == [ItemID |-> item.ID,
                             ItemResponseOID |-> GUID_EMPTY,
                             Order |-> responseOrder(S)]
           historyEntry == skippedEntry(item)
           S1 == appendEntries(S, responseEntry, historyEntry)
       IN  loadFromHandler(f, a, S1, snapshot(S), "skip")

\* ------------------------------------------------------ the specification
\* The radio inputs of the items of the bank and of the documents.
AllOptions ==
    UNION { radioInputs(it) :
              it \in { Bank[n] : n \in DOMAIN Bank }
                       \cup UNION { { FormDetails(f)[n] : n \in DOMAIN FormDetails(f) } :
                                      f \in Forms } }

Next ==
    \/ renderPromisForms /\ UNCHANGED << call, monitor, runner >>
    \/ \E f \in listed : startAdaptive(f) /\ UNCHANGED << call, monitor, runner >>
    \/ \E f \in listed : startFixedCached(f) /\ UNCHANGED << call, monitor, runner >>
    \/ \E f \in listed : startFixedFetch(f) /\ UNCHANGED << call, monitor, runner >>
    \/ \E r \in reqs : detailsArrive(r, FormDetails(r.form)) /\ UNCHANGED << call, monitor, runner >>
    \/ \E r \in reqs : detailsFail(r) /\ UNCHANGED << call, monitor, runner >>
    \/ \E r \in reqs : nextItemArrives(r) /\ UNCHANGED << call, monitor, runner >>
    \/ \E r \in reqs, p \in FinalPayloads : nextFinalArrives(r, p) /\ UNCHANGED << call, monitor, runner >>
    \/ \E r \in reqs : nextFails(r) /\ UNCHANGED << call, monitor, runner >>
    \/ \E r \in reqs, p \in ScorePayloads : scoreArrives(r, p) /\ UNCHANGED << call, monitor, runner >>
    \/ \E r \in reqs : scoreFails(r) /\ UNCHANGED << call, monitor, runner >>
    \/ \E f \in Forms, opt \in AllOptions : submitAnswer(f, opt) /\ UNCHANGED << call, monitor, runner >>
    \/ \E f \in Forms : skipItem(f) /\ UNCHANGED << call, monitor, runner >>

Spec == Init /\ [][Next]_vars

\* The same program with a provider whose successful responses need not be
\* JSON: the stateless request then returns the fallback object of safeJson,
\* which holds no item.
SpecAnyBody ==
    /\ Init
    /\ [][\/ Next
          \/ \E r \in reqs, p \in FallbackPayloads :
                 nextFinalArrives(r, p) /\ UNCHANGED << call, monitor, runner >>]_vars

\* ------------------------------------------------ the classifier, called
\* The names and titles a form may carry (absent, empty, or a text).
FormTexts ==
    { Null, << >>, Names.PediatricShortForm8a, Names.UpperCase, Names.PainInterferenceShortForm,
      Words.Pediatric, Names.PediatricNoSpace, Names.Adult }


\* const shortForm = isPainInterferenceShortForm(form).
classify ==
    /\ ~ret.done
    /\ ret' = Returned(isPainInterferenceShortForm(arg))
    /\ UNCHANGED << engine, monitor, runner, arg >>

\* The forms isPainInterferenceShortForm is called on.
SpecClassifier ==
    /\ InitCall([OID : {"154D0273", "CAT", ""}, Name : FormTexts, Title : FormTexts])
    /\ [][classify]_vars

\* ------------------------------------------------- parseTScore, called
\* The payload whose candidate fields hold v[1] .. v[8], in the order tScore,
\* TScore, tscore, Score.TScore, Score.tScore, Results.TScore,
\* Results.tScore, Results.Score; a member that would be undefined is absent,
\* and so is a sub-object without members.
scoreBody(v, Theta) ==
    LET Score   == IF v[4] = Undefined /\ v[5] = Undefined THEN Undefined
                   ELSE [name \in {n \in {"TScore", "tScore"} :
                                     v[IF n = "TScore" THEN 4 ELSE 5] # Undefined} |->
                            v[IF name = "TScore" THEN 4 ELSE 5]]
        slot(n) == CASE n = "TScore" -> 6 [] n = "tScore" -> 7 [] n = "Score" -> 8
        Results == IF v[6] = Undefined /\ v[7] = Undefined /\ v[8] = Undefined
                   THEN Undefined
                   ELSE [name \in {n \in {"TScore", "tScore", "Score"} :
                                     v[slot(n)] # Undefined} |-> v[slot(name)]]
        top(n)  == CASE n = "tScore" -> v[1] [] n = "TScore" -> v[2]
                     [] n = "tscore" -> v[3] [] n = "Score" -> Score
                     [] n = "Results" -> Results [] n = "Theta" -> Theta
        present == {n \in {"tScore", "TScore", "tscore", "Score", "Results", "Theta"} :
                      top(n) # Undefined}
    IN  [name \in {"null"} \cup present |->
            IF name = "null" THEN FALSE ELSE top(name)]

\* The payloads parseTScore is called on: null, and the bodies with up to two
\* candidate fields filled, with and without a theta. One field holds
\* nothing, null, a number or a text; a second one nothing, a number or a
\* numeric text.
ScoreBodies ==
    {NullPayload} \cup
    { scoreBody([k \in 1..8 |-> IF k = i THEN a ELSE IF k = j THEN b ELSE Undefined],
                Theta) :
        i \in 1..8, j \in 1..8,
        a \in { Undefined, JNull, JNumber(42 * Unit), JNumber(0),
                JString(<< "4", "2" >>), JString(<< "a", "b", "c" >>),
                JString(<< " " >>), JString(<< "6", "1", ".", "5", "x" >>) },
        b \in { Undefined, JNumber(58 * Unit), JString(<< "5", "8" >>) },
        Theta \in {Undefined, JNumber((15 * Unit) \div 10)} }


\* A parseTScore that stored the score it found on the payload, as the routes
\* of the server do.
storedOnPayload(payload) ==
    LET stored(tScore) == IF tScore = Undefined THEN payload
                          ELSE withTScore(payload, tScore)
    IN  stored(parseTScore(payload))

\* The payload after parseTScore(payload): the function reads the members of
\* the payload into a local array and assigns to none of them.
afterParseTScore(payload) ==
    payload

\* const serverTScore = parseTScore(payload).
callParseTScore ==
    /\ ~ret.done
    /\ ret' = Returned(parseTScore(arg))
    /\ arg' = afterParseTScore(arg)
    /\ UNCHANGED << engine, monitor, runner >>

SpecParseTScore == InitCall(ScoreBodies) /\ [][callParseTScore]_vars

\* ------------------------------------------ the T score of a payload, shown
\* The bodies the provider answers a request of a route with, and the route.
\* A body carries a theta (none, null, a number or a text) and at most one
\* score, in one of the candidate fields.
ResultInputs ==
    [route : {"stateless", "score"},
     body  : {NullPayload} \cup
             { scoreBody([k \in 1..8 |-> IF k = i THEN a ELSE Undefined], Theta) :
                 i \in 1..8,
                 a \in { Undefined, JNumber(42 * Unit), JString(<< "5", "8" >>),
                         JString(<< "a", "b", "c" >>) },
                 Theta \in { Undefined, JNull, JNumber((15 * Unit) \div 10),
                             JNumber((2 * Unit) \div 10), JNumber(0),
                             JNumber(0 - (15 * Unit) \div 10),
                             JNumber(123456 * (Unit \div 1000000)),
                             JString(<< "1", ".", "5" >>), JString(<< "0" >>),
                             JString(<< "a", "b", "c" >>), JString(<< >>) } }]


\* The route answers with the provider's payload, the page receives it and
\* renderAssessmentResults shows it: the score it reads from the payload
\* (serverTScore) and the text of its "T Score:" line.
showResults ==
    /\ ~ret.done
    /\ LET response == ProviderResponse(TRUE, TRUE, arg.body)
           payload  == IF arg.route = "stateless"
                       THEN fetchStatelessAssessment(
                                statelessRoute("CAT", JArray(<< NoItem >>),
                                               response)).payload
                       ELSE scoreFixedAssessment(
                                scoreRoute("PED8A", JArray(<< NoItem >>),
                                           response)).payload
       IN  ret' = Returned([tScore |-> parseTScore(payload),
                            text   |-> tScoreText(payload)])
    /\ UNCHANGED << engine, monitor, runner, arg >>

SpecResults == InitCall(ResultInputs) /\ [][showResults]_vars

\* --------------------------------------------- getOrderedItems, called
\* Items a form-detail document may hold: with and without an explicit
\* order (a number, a numeric text, two fields at once), with identifiers
\* that begin with digits, hold digits later, or hold none.
ItemPool ==
    { [ID |-> "Q2"],
      [ID |-> "Q10", Order |-> JNumber(Unit)],
      [ID |-> "Q1", Order |-> JNumber(2 * Unit)],
      [ID |-> "X", Order |-> JNumber(5 * Unit)],
      [ID |-> "A"],
      [ID |-> "B"],
      [ID |-> "2B"],
      [ID |-> "X", ItemOrder |-> JNumber(3 * Unit), Order |-> JNumber(Unit)],
      [ID |-> "A", Position |-> JString(<< "4" >>)] }


\* const items = getOrderedItems(details).
callGetOrderedItems ==
    /\ ~ret.done
    /\ ret' = Returned(getOrderedItems(arg))
    /\ UNCHANGED << engine, monitor, runner, arg >>

SpecNormalizer ==
    /\ InitCall(UNION { [1..n -> ItemPool] : n \in 0..MaxItems })
    /\ [][callGetOrderedItems]_vars

\* ------------------------------------------------ the options of an item
\* a ?? b ?? ... ?? otherwise: the first of the values that is neither
\* undefined nor null.
coalesce(values, otherwise) ==
    LET held == { i \in DOMAIN values : values[i].type \notin {"undefined", "null"} }
    IN  IF held = { } THEN otherwise
        ELSE values[CHOOSE i \in held : \A j \in held : i <= j]

\* String(value) and `${value}`: a text is itself, a whole number its digits.
String(value) ==
    IF value.type = "string" THEN value.value
    ELSE toFixed(value.value.n, 0)

\* The option extractOptions makes of one entry of a Map.
extractOption(option) ==
    LET value       == coalesce(<< member(option, "Value") >>, JString(<< >>))
        label       == coalesce(<< member(option, "Description") >>, JString(<< >>))
        responseKey == coalesce(<< member(option, "ItemResponseOID"),
                                   member(option, "ItemResponseOid"),
                                   member(option, "ItemResponseID"),
                                   member(option, "ItemResponseId"),
                                   member(option, "Description"),
                                   member(option, "Value") >>, JString(<< >>))
    IN  [value |-> value,
         label |-> IF truthy(value)
                   THEN << "(" >> \o String(value) \o << ")", " " >> \o String(label)
                   ELSE String(label),
         order |-> IF member(option, "Value").type # "undefined"
                   THEN Number(member(option, "Value"))
                   ELSE Number(member(option, "Order")),
         raw |-> option,
         responseKey |-> responseKey,
         displayLabel |-> String(coalesce(<< member(option, "Description"),
                                             member(option, "Label") >>,
                                          responseKey))]

\* extractOptions: the entries of the Map of every element that has one, in
\* their order.
extractOptions(item) ==
    LET elements == IF "Elements" \in DOMAIN item THEN item.Elements ELSE << >>
        options[i \in 0..Len(elements)] ==
            IF i = 0 THEN << >>
            ELSE options[i - 1] \o
                 (IF "Map" \in DOMAIN elements[i]
                  THEN [k \in DOMAIN elements[i].Map |->
                           extractOption(elements[i].Map[k])]
                  ELSE << >>)
    IN  options[Len(elements)]

getOptionOrder(option) ==
    firstNumeric(<< option.order, Number(option.value) >>)

\* compareOptionOrder(a, b): negative, zero or positive; the order first,
\* then the label.
compareOptionOrder(a, b) ==
    orderThenText(getOptionOrder(a), getOptionOrder(b), a.label, b.label)

\* renderAssessmentQuestion: const options = extractOptions(item);
\* options.sort(compareOptionOrder).
orderedOptions(item) ==
    LET options == extractOptions(item)
    IN  sort(options, [j \in DOMAIN options, i \in DOMAIN options |->
                          compareOptionOrder(options[j], options[i])])

\* Entries a Map may hold: a value (a numeric text, a number, another text),
\* an order, both or neither.
OptionPool ==
    { [Value |-> JString(<< "3" >>), Description |-> JString(<< "C" >>)],
      [Value |-> JString(<< "1" >>), Description |-> JString(<< "A" >>)],
      [Value |-> JString(<< "2" >>), Description |-> JString(<< "B" >>)],
      [Description |-> JString(<< "B" >>)],
      [Order |-> JNumber(2 * Unit), Description |-> JString(<< "A" >>)],
      [Value |-> JString(<< "1" >>), Order |-> JNumber(5 * Unit),
       Description |-> JString(<< "B" >>)],
      [Value |-> JString(<< "A", "B", "C" >>), Description |-> JString(<< "A" >>)],
      [Value |-> JNumber(2 * Unit), Description |-> JString(<< "A" >>)] }


callExtractOptions ==
    /\ ~ret.done
    /\ ret' = Returned(orderedOptions(arg))
    /\ UNCHANGED << engine, monitor, runner, arg >>

\* The items renderAssessmentQuestion is called on hold a question text and
\* one Map.
SpecOptions ==
    /\ InitCall({ [ID |-> "A",
                   Elements |-> << [Description |-> JString(<< "A" >>)],
                                   [Map |-> map] >>] :
                     map \in UNION { [1..n -> OptionPool] : n \in 0..MaxOptions } })
    /\ [][callExtractOptions]_vars

\* ------------------------------------- the provider's operations, called
\* What the operations are called with: the operation, the identifier (given
\* or missing), the category asked for, the responses (none, null, a list,
\* something else) and what the provider would answer if it were asked: a
\* payload, a list of forms, a failure of status 500, 404 or 503, or nothing
\* (status 0).
ProviderCalls ==
    [op : {"listForms", "getFormDetails", "fetchStatelessAssessmentItem",
           "scoreFormResponses", "formsRoute", "detailsRoute",
           "statelessRoute", "scoreRoute"},
     formOid : {"", "<undefined>", "<null>", "CAT", "PED8A"},
     category : {"<undefined>", "pediatric"},
     responses : {Undefined, JNull, JArray(<< >>), JArray(<< NoItem >>),
                  JString(<< "A" >>), JNumber(Unit)},
     response : {ProviderResponse(TRUE, TRUE, ScorePayload),
                 ProviderResponse(TRUE, TRUE,
                     [null |-> FALSE, Items |-> << >>,
                      Form |-> JArray(<< FormOf("CAT"), FormOf("PED8A"),
                                         FormOf("154D0273") >>)]),
                 ProviderResponse(FALSE, TRUE, NullPayload),
                 ProviderResponse(TRUE, FALSE, Undefined),
                 ProviderResponse(FALSE, FALSE, Undefined),
                 [ProviderResponse(FALSE, TRUE, NullPayload)
                      EXCEPT !.status = 404, !.statusText = "Not Found"],
                 [ProviderResponse(FALSE, FALSE, Undefined)
                      EXCEPT !.status = 503, !.statusText = "Service Unavailable"],
                 [ProviderResponse(FALSE, FALSE, Undefined)
                      EXCEPT !.status = 0, !.statusText = ""]}]


\* One operation of the client, or one route, runs: whether it failed, with
\* what status, and whether the provider was asked.
callProvider ==
    /\ ~ret.done
    /\ LET answer(reply) ==
               [threw |-> ~reply.ok, statusCode |-> reply.status,
                contacted |-> reply.contacted]
           result ==
               CASE arg.op = "listForms" ->
                        listForms(arg.response)
                 [] arg.op = "formsRoute" ->
                        answer(formsRoute(arg.category, arg.response))
                 [] arg.op = "detailsRoute" ->
                        answer(detailsRoute(arg.formOid, arg.response))
                 [] arg.op = "getFormDetails" ->
                        getFormDetails(arg.formOid, arg.response)
                 [] arg.op = "fetchStatelessAssessmentItem" ->
                        fetchStatelessAssessmentItem(arg.formOid,
                            orEmpty(arg.responses), arg.response)
                 [] arg.op = "scoreFormResponses" ->
                        scoreFormResponses(arg.formOid, arg.responses,
                                           arg.response)
                 [] arg.op = "statelessRoute" ->
                        answer(statelessRoute(arg.formOid, arg.responses,
                                              arg.response))
                 [] arg.op = "scoreRoute" ->
                        answer(scoreRoute(arg.formOid, arg.responses,
                                          arg.response))
       IN  ret' = Returned([threw |-> result.threw,
                            statusCode |-> result.statusCode,
                            contacted |-> result.contacted])
    /\ UNCHANGED << engine, monitor, runner, arg >>

SpecProvider == InitCall(ProviderCalls) /\ [][callProvider]_vars

\* ------------------------------------------------------------ the monitor
\* The page after loading: init() has been granted the camera, the Stop
\* button is disabled and the Enable Monitoring button is enabled. A socket
\* and a recorder carry the number of the call of startMonitoring that made
\* them; so does the interval that call set.

\* The click handler of the Enable Monitoring button, up to its first wait:
\* startMonitoring passes enableMedia, and loadConfig either starts the
\* fetch, joins the fetch under way, or hands out the configuration it has;
\* in the last case openSocket follows at once.
toggleClick ==
    /\ ~monitoringEnabled
    /\ started < MaxStarts
    /\ started' = started + 1
    /\ IF configPromise = "resolved"
       THEN /\ readyState' = [readyState EXCEPT ![started + 1] = "connecting"]
            /\ UNCHANGED configPromise
       ELSE /\ configPromise' = "pending"
            /\ UNCHANGED readyState
    /\ starts' = starts \cup {started + 1}
    /\ hev' = [op |-> "start", on |-> started + 1]
    /\ UNCHANGED << monitoringEnabled, socket, serverReady, timers,
                    videoTimer, recorders, batchRecorder, encoding, awaiting >>
    /\ UNCHANGED << engine, runner, call >>

\* The fetch of /api/hume/config answers: every call of startMonitoring
\* waiting for it goes on into openSocket, where this.socket is not open.
configArrives ==
    /\ configPromise = "pending"
    /\ configPromise' = "resolved"
    /\ readyState' = [k \in 1..MaxStarts |->
                        IF k \in starts THEN "connecting" ELSE readyState[k]]
    /\ hev' = [op |-> "config", on |-> 0]
    /\ UNCHANGED << monitoringEnabled, starts, started, socket, serverReady,
                    timers, videoTimer, recorders, batchRecorder, encoding,
                    awaiting >>
    /\ UNCHANGED << engine, runner, call >>

\* The fetch of /api/hume/config fails: loadConfig forgets the promise and
\* every call waiting for it throws; the click handlers show the message.
configFails ==
    /\ configPromise = "pending"
    /\ configPromise' = "null"
    /\ starts' = { }
    /\ hev' = [op |-> "failed", on |-> 0]
    /\ UNCHANGED << monitoringEnabled, started, readyState, socket,
                    serverReady, timers, videoTimer, recorders,
                    batchRecorder, encoding, awaiting >>
    /\ UNCHANGED << engine, runner, call >>

\* The 'open' event of socket k, and the rest of the call of startMonitoring
\* that waited for it: startVideoStreaming sets an interval and keeps it in
\* videoTimer, startBatchSnapshots makes a recorder unless there is one, and
\* the click handler sets monitoringEnabled and swaps the buttons.
socketOpens(k) ==
    /\ readyState[k] = "connecting"
    /\ readyState' = [readyState EXCEPT ![k] = "open"]
    /\ socket' = k
    /\ serverReady' = TRUE
    /\ starts' = starts \ {k}
    /\ timers' = timers \cup {k}
    /\ videoTimer' = k
    /\ IF batchRecorder # 0
       THEN UNCHANGED << recorders, batchRecorder >>
       ELSE /\ recorders' = [recorders EXCEPT ![k] = "recording"]
            /\ batchRecorder' = k
    /\ monitoringEnabled' = TRUE
    /\ hev' = [op |-> "open", on |-> k]
    /\ UNCHANGED << configPromise, started, encoding, awaiting >>
    /\ UNCHANGED << engine, runner, call >>

\* Socket k fails to connect: its 'error' event rejects openSocket, its
\* 'close' event clears this.socket and sets serverReady.
socketFails(k) ==
    /\ readyState[k] = "connecting"
    /\ readyState' = [readyState EXCEPT ![k] = "closed"]
    /\ socket' = 0
    /\ serverReady' = TRUE
    /\ starts' = starts \ {k}
    /\ hev' = [op |-> "failed", on |-> k]
    /\ UNCHANGED << monitoringEnabled, configPromise, started, timers,
                    videoTimer, recorders, batchRecorder, encoding, awaiting >>
    /\ UNCHANGED << engine, runner, call >>

\* The click handler of the Stop button: stopMonitoring of HumeMonitor,
\* then the finally block of stopMonitoring of main.js.
stopClick ==
    /\ monitoringEnabled
    /\ recorders' = [r \in 1..MaxStarts |->
                       IF r = batchRecorder /\ recorders[r] = "recording"
                       THEN "stopping" ELSE recorders[r]]
    /\ batchRecorder' = 0
    /\ timers' = timers \ {videoTimer}
    /\ videoTimer' = 0
    /\ readyState' = [k \in 1..MaxStarts |->
                        IF k = socket /\ readyState[k] = "open"
                        THEN "closing" ELSE readyState[k]]
    /\ socket' = 0
    /\ serverReady' = TRUE
    /\ monitoringEnabled' = FALSE
    /\ hev' = [op |-> "stop", on |-> 0]
    /\ UNCHANGED << configPromise, starts, started, encoding, awaiting >>
    /\ UNCHANGED << engine, runner, call >>

\* The 'close' event of socket k after it was open.
socketCloses(k) ==
    /\ readyState[k] \in {"open", "closing"}
    /\ readyState' = [readyState EXCEPT ![k] = "closed"]
    /\ socket' = 0
    /\ serverReady' = TRUE
    /\ awaiting' = [awaiting EXCEPT ![k] = 0]
    /\ hev' = [op |-> "close", on |-> k]
    /\ UNCHANGED << monitoringEnabled, configPromise, starts, started,
                    timers, videoTimer, recorders, batchRecorder, encoding >>
    /\ UNCHANGED << engine, runner, call >>

\* Interval t fires and captureFrame passes its first check: this.socket is
\* open, and the frame is drawn and handed to the encoder.
timerFires(t) ==
    /\ t \in timers
    /\ socket # 0
    /\ readyState[socket] = "open"
    /\ encoding < MaxEncoding
    /\ encoding' = encoding + 1
    /\ hev' = [op |-> "capture", on |-> t]
    /\ UNCHANGED << monitoringEnabled, configPromise, starts, started,
                    readyState, socket, serverReady, timers, videoTimer,
                    recorders, batchRecorder, awaiting >>
    /\ UNCHANGED << engine, runner, call >>

\* The callback of toBlob: the frame is dropped unless serverReady; else
\* serverReady is cleared and the frame is sent on this.socket. Without a
\* socket send throws, and the catch block logs it.
frameEncoded ==
    /\ encoding > 0
    /\ encoding' = encoding - 1
    /\ IF ~serverReady
       THEN /\ hev' = [op |-> "dropped", on |-> socket]
            /\ UNCHANGED << serverReady, awaiting >>
       ELSE /\ serverReady' = FALSE
            /\ IF socket # 0 /\ readyState[socket] = "open"
               THEN /\ awaiting[socket] < MaxAwaiting
                    /\ awaiting' = [awaiting EXCEPT ![socket] = @ + 1]
                    /\ hev' = [op |-> "frame", on |-> socket]
               ELSE /\ hev' = [op |-> "threw", on |-> socket]
                    /\ UNCHANGED awaiting
    /\ UNCHANGED << monitoringEnabled, configPromise, starts, started,
                    readyState, socket, timers, videoTimer, recorders,
                    batchRecorder >>
    /\ UNCHANGED << engine, runner, call >>

\* The 'message' event of socket k, the reply to a frame sent on it:
\* handleSocketMessage sets serverReady.
messageArrives(k) ==
    /\ readyState[k] = "open"
    /\ awaiting[k] > 0
    /\ awaiting' = [awaiting EXCEPT ![k] = @ - 1]
    /\ serverReady' = TRUE
    /\ hev' = [op |-> "message", on |-> k]
    /\ UNCHANGED << monitoringEnabled, configPromise, starts, started,
                    readyState, socket, timers, videoTimer, recorders,
                    batchRecorder, encoding >>
    /\ UNCHANGED << engine, runner, call >>

\* The 'dataavailable' event of recorder r, with a clip of the given size:
\* every BATCH_INTERVAL_MS while it records, and once more when stop() has
\* been called on it. The listener posts a clip that is not empty to
\* /api/hume/batch.
dataAvailable(r, size) ==
    /\ recorders[r] \in {"recording", "stopping"}
    /\ recorders' = [recorders EXCEPT ![r] = IF @ = "stopping" THEN "inactive"
                                                ELSE @]
    /\ hev' = [op |-> IF size = 0 THEN "empty" ELSE "batch", on |-> r]
    /\ UNCHANGED << monitoringEnabled, configPromise, starts, started,
                    readyState, socket, serverReady, timers, videoTimer,
                    batchRecorder, encoding, awaiting >>
    /\ UNCHANGED << engine, runner, call >>

NextMonitor ==
    \/ toggleClick
    \/ configArrives
    \/ configFails
    \/ \E k \in 1..MaxStarts : socketOpens(k)
    \/ \E k \in 1..MaxStarts : socketFails(k)
    \/ stopClick
    \/ \E k \in 1..MaxStarts : socketCloses(k)
    \/ \E t \in 1..MaxStarts : timerFires(t)
    \/ frameEncoded
    \/ \E k \in 1..MaxStarts : messageArrives(k)
    \/ \E r \in 1..MaxStarts, size \in {0, 1} : dataAvailable(r, size)

SpecMonitor ==
    Init /\ [][NextMonitor]_vars

\* --------------------------------------------------------------- the game
\* The game as its loop sees it: whether it runs, the callbacks of loop that
\* requestAnimationFrame holds for the next animation frame, the frame
\* counter and the score. What the obstacles and the player do is the
\* environment's: update() is given whether detectCollisions finds a
\* collision, which no frame before the first spawn can.

\* spawnObstacles: no obstacle is spawned while frame - lastSpawn is less.
SpawnInterval == 90

\* The game: running, the callbacks pending, frame, score, update() runs.
Game(isRunning, pending, frameNo, points, ran) ==
    [running |-> isRunning, scheduled |-> pending, frame |-> frameNo,
     score |-> points, updates |-> ran]

\* loop: nothing unless the game runs; else update(), draw() and
\* requestAnimationFrame(this.loop), also when update() stopped the game.
\* update() counts the frame, stops the game on a collision, and scores
\* every fifth frame.
loop(g, collided) ==
    LET update(frameNo) ==
            Game(g.running /\ ~collided, g.scheduled, frameNo,
                 IF frameNo % 5 = 0 THEN g.score + 1 ELSE g.score,
                 g.updates + 1)
        again(u) == [u EXCEPT !.scheduled = @ + 1]
    IN  IF ~g.running THEN g ELSE again(update(g.frame + 1))

\* The callbacks of one animation frame, run one after the other; hits[n]
\* tells whether the n-th of them meets a collision.
RECURSIVE runCallbacks(_, _, _)
runCallbacks(g, n, hits) ==
    IF n = 0 THEN g
    ELSE loop(runCallbacks(g, n - 1, hits), hits[n])

\* The click handler of the Start button: start() returns if the game runs;
\* else it resets the game, sets running and calls loop() once.
gameStart ==
    /\ scheduled < MaxScheduled
    /\ LET started1(g) ==
               /\ running' = g.running
               /\ scheduled' = g.scheduled
               /\ frame' = g.frame
               /\ score' = g.score
               /\ updates' = g.updates
       IN  IF running
           THEN UNCHANGED runner
           ELSE started1(loop(Game(TRUE, scheduled, 0, 0, 0), FALSE))
    /\ UNCHANGED << engine, monitor, call >>

\* An animation frame: the browser runs the callbacks it holds; those they
\* request are held for the next frame.
animationFrame ==
    /\ scheduled > 0
    /\ frame + scheduled <= MaxFrames
    /\ \E hits \in [1..scheduled -> BOOLEAN] :
         LET shown(g) ==
                 /\ running' = g.running
                 /\ scheduled' = g.scheduled
                 /\ frame' = g.frame
                 /\ score' = g.score
                 /\ updates' = g.updates
         IN  /\ \A n \in 1..scheduled : hits[n] => frame + n >= SpawnInterval
             /\ shown(runCallbacks(Game(running, 0, frame, score, 0),
                                   scheduled, hits))
    /\ UNCHANGED << engine, monitor, call >>

NextGame ==
    \/ gameStart
    \/ animationFrame

SpecGame ==
    Init /\ [][NextGame]_vars

\* ================================================================ claims
\* The request a step has consumed, by the kind of step.
Consumed(r, op) == r \in reqs /\ ev'.op = op /\ reqs' = reqs \ {r}

\* C1: in every reachable state every session object has as many history
\* entries as responses, whatever starts, submits, skips and successful or
\* failed network results led there.
C1_ResponsesHistorySameLength ==
    \A s \in SessIds : Len(sess[s].responses) = Len(sess[s].history)

\* A failed request has just been rolled back to a session that keeps one
\* response and one history entry.
C1_Witness ==
    /\ ev.op = "nextFail"
    /\ ev.asess # 0
    /\ Len(sess[ev.sess].responses) = 1
    /\ Len(sess[ev.sess].history) = 1

\* C2: in every reachable state the response at position i of a session
\* has sequence number i, so the numbers are 1..n without gap or repeat.
C2_OrderIsPosition ==
    \A s \in SessIds :
        \A i \in DOMAIN sess[s].responses : sess[s].responses[i].Order = i

\* A skip has just been appended as the second response, after an answer.
C2_Witness ==
    /\ ev.op = "skip"
    /\ Len(sess[ev.asess].responses) = 2
    /\ sess[ev.asess].responses[1].ItemResponseOID # GUID_EMPTY
    /\ sess[ev.asess].responses[2].ItemResponseOID = GUID_EMPTY

\* The request r was sent by a submit or skip handler of an adaptive
\* session (it carries the handler's snapshot) and fails in this step.
SubmitFails(r) == Consumed(r, "nextFail") /\ r.kind = "next" /\ r.rollback.has

\* C3: when the stateless request of a submit or skip fails, the session
\* the answer was appended to has the responses and the history it had
\* immediately before the handler ran (the handler's snapshot).
C3_FailedCallRestores ==
    [][\A r \in reqs :
          SubmitFails(r) =>
              /\ sess'[r.asess].responses = r.rollback.responses
              /\ sess'[r.asess].history = r.rollback.history]_vars

\* The same for the requests whose frame holds the session the handler
\* appended to: there the catch block restores the right object.
C3_RestoresWhenSameSession ==
    [][\A r \in reqs :
          (SubmitFails(r) /\ r.sess = r.asess) =>
              /\ sess'[r.asess].responses = r.rollback.responses
              /\ sess'[r.asess].history = r.rollback.history]_vars

\* The result of request r arrives in this step, for a session that the
\* store no longer holds under the form of the request.
StaleResult(r) ==
    /\ r \in reqs
    /\ r.kind \in {"next", "score"}
    /\ ev'.op \in {"nextItem", "nextFinal", "nextFail", "scoreOk", "scoreFail"}
    /\ reqs' = reqs \ {r}
    /\ assessmentSessions[r.form] # r.sess

\* C4: a network result that arrives for a session which was deleted from
\* the store or replaced meanwhile is a no-op: the entry of the form and the
\* session it holds stay as they are, and no question bound to the stale
\* session is presented.
C4_StaleResultIsNoOp ==
    [][\A r \in reqs :
          StaleResult(r) =>
              /\ assessmentSessions' = assessmentSessions
              /\ assessmentSessions[r.form] # 0 =>
                     sess'[assessmentSessions[r.form]] = sess[assessmentSessions[r.form]]
              /\ ~(view'[r.form].kind = "question" /\ view'[r.form].sess = r.sess)]_vars

\* C5: when the first stateless request of startPromisAssessment fails, the
\* store holds no session for the form afterwards.
C5_FailedStartLeavesNoSession ==
    [][\A r \in reqs :
          (Consumed(r, "nextFail") /\ ~r.rollback.has) =>
              assessmentSessions'[r.form] = 0]_vars

\* C6: a session leaves the store in the step that produces its terminal
\* result (an empty item list in adaptive mode, a successful score in fixed
\* mode); no session that has reached Scored is in the store; and Scored is
\* terminal: a scored session is not changed again and no question bound
\* to it is presented.
C6_ScoredIsRemovedAndTerminal ==
    [][/\ ev'.op \in {"nextFinal", "scoreOk"} => assessmentSessions'[ev'.form] = 0
       /\ \A s \in scored' : \A f \in Forms : assessmentSessions'[f] # s
       /\ \A s \in scored :
             /\ sess'[s] \in {sess[s], NoSession}
             /\ \A f \in Forms :
                   ~(view'[f].kind = "question" /\ view'[f].sess = s)]_vars

\* The part of C6 about the store alone.
C6_ScoredNotInStore ==
    /\ ev.op \in {"nextFinal", "scoreOk"} => assessmentSessions[ev.form] = 0
    /\ \A s \in scored : \A f \in Forms : assessmentSessions[f] # s

\* The request r of a submit or skip fails in this step, its session being
\* the one the store holds and its container being on the page.
OrdinarySubmitFails(r) ==
    /\ SubmitFails(r)
    /\ r.live
    /\ r.sess = r.asess
    /\ assessmentSessions[r.form] = r.sess

\* The item a submit or skip request was sent for: that of the response the
\* handler appended last.
AnsweredItemID(r) == r.body[Len(r.body)].ItemID

\* The question of item `id` is on the page for form f, bound to session s,
\* so that its submit and skip handlers can run.
AwaitingAnswer(f, s, id) ==
    /\ view[f].kind = "question"
    /\ view[f].sess = s
    /\ view[f].item.ID = id
    /\ view[f].allowSkip

\* C7: after a failed stateless request of a submit or skip the session is
\* still in the store, its current question is the one that was being
\* answered, and that question awaits an answer again.
C7_FailedSubmitAwaitsAnswerAgain ==
    [][\A r \in reqs :
          OrdinarySubmitFails(r) =>
              /\ assessmentSessions'[r.form] = r.sess
              /\ sess'[r.sess].currentItem.ID = AnsweredItemID(r)
              /\ AwaitingAnswer(r.form, r.sess, AnsweredItemID(r))']_vars

AnswersInItemOrder(responses, items) ==
    /\ Len(responses) <= Len(items)
    /\ \A i \in DOMAIN responses : responses[i].ItemID = items[i].ID

\* C9: in fixed mode scoreFixedAssessment is called once per session, in
\* the step that moves the cursor to the end of the item list and not
\* before, and with the complete response list, one response per item.
C9_ScoredOnceAtEndWithAllResponses ==
    /\ \A s \in SessIds : scoreCalls[s] <= 1
    /\ \A s \in SessIds :
          sess[s].mode = "fixed" =>
              scoreCalls[s] = (IF sess[s].currentIndex = Len(sess[s].items) THEN 1 ELSE 0)
    /\ ev.op = "submitLast" =>
          /\ scoreCalls[ev.sess] = 1
          /\ sess[ev.sess].currentIndex = Len(sess[ev.sess].items)
    /\ \A r \in reqs :
          r.kind = "score" =>
              /\ sess[r.sess].mode = "fixed"
              /\ r.body = sess[r.sess].responses
              /\ Len(r.body) = Len(sess[r.sess].items)
              /\ AnswersInItemOrder(r.body, sess[r.sess].items)

\* The last item of a two-item form has just been answered and the score
\* request is in flight.
C9_Witness ==
    /\ ev.op = "submitLast"
    /\ \E r \in reqs : r.kind = "score" /\ r.sess = ev.sess /\ Len(r.body) = 2

\* The score request r fails in this step, its session being the one the
\* store holds and its container being on the page.
OrdinaryScoreFails(r) ==
    /\ Consumed(r, "scoreFail")
    /\ r.kind = "score"
    /\ r.live
    /\ assessmentSessions[r.form] = r.sess

\* A step that sends a score request for session s can be taken: the only
\* place that calls completeFixedAssessment is the submit handler of the
\* last question of the fixed list.
CanRequestScore(f, s) ==
    /\ view[f].kind = "question"
    /\ view[f].sess = s
    /\ sess[s].mode = "fixed"
    /\ ~withinItems([sess[s] EXCEPT !.currentIndex = @ + 1])

\* C10: when the score request fails, the session stays in the store with
\* its cursor at the end of the item list and its responses and history
\* unchanged, and scoring can be requested again for it.
C10_FailedScoreCanBeRetried ==
    [][\A r \in reqs :
          OrdinaryScoreFails(r) =>
              /\ assessmentSessions'[r.form] = r.sess
              /\ sess'[r.sess].currentIndex = Len(sess'[r.sess].items)
              /\ sess'[r.sess].responses = sess[r.sess].responses
              /\ sess'[r.sess].history = sess[r.sess].history
              /\ CanRequestScore(r.form, r.sess)']_vars

\* What C10 says of the session object alone.
C10_FailedScoreKeepsSession ==
    [][\A r \in reqs :
          OrdinaryScoreFails(r) =>
              /\ assessmentSessions'[r.form] = r.sess
              /\ sess'[r.sess].currentIndex = Len(sess'[r.sess].items)
              /\ sess'[r.sess].responses = sess[r.sess].responses
              /\ sess'[r.sess].history = sess[r.sess].history]_vars

\* C11: whenever a question of a fixed session awaits its answer, the
\* cursor of the session equals the number of its responses and the
\* question shown is that of the item at the cursor.
C11_CursorCountsResponses ==
    \A f \in Forms :
        (view[f].kind = "question" /\ sess[view[f].sess].mode = "fixed") =>
            LET S == sess[view[f].sess] IN
            /\ S.currentIndex = Len(S.responses)
            /\ S.currentIndex < Len(S.items)
            /\ view[f].item = S.items[S.currentIndex + 1]

\* The second question of a fixed session is shown, one answer recorded.
C11_Witness ==
    \E f \in Forms :
        /\ view[f].kind = "question"
        /\ sess[view[f].sess].mode = "fixed"
        /\ sess[view[f].sess].currentIndex = 1
        /\ Len(sess[view[f].sess].responses) = 1

\* The submit handler runs in this step on a fixed session whose cursor
\* stays within the item list.
SubmitWithinList ==
    /\ ev'.op \in {"submitFixed", "submitLast"}
    /\ sess[ev'.asess].mode = "fixed"
    /\ sess[ev'.asess].currentIndex + 1 < Len(sess[ev'.asess].items)

\* C12: a submit on a fixed session that leaves the cursor within the item
\* list sends no request, moves the cursor on by exactly one and presents
\* the item at the new cursor; and no step changes the item list of a fixed
\* session.
C12_FixedSubmitAdvancesLocally ==
    [][/\ SubmitWithinList =>
             LET a == ev'.asess IN
             /\ reqs' = reqs
             /\ sess'[a].currentIndex = sess[a].currentIndex + 1
             /\ view'[ev'.form] =
                    QuestionView(a, sess'[a].items[sess'[a].currentIndex + 1], FALSE)
       /\ \A s \in SessIds :
             (sess[s].mode = "fixed" /\ sess'[s].mode = "fixed") =>
                 sess'[s].items = sess[s].items]_vars

\* The first question of a two-item form has just been answered: the cursor
\* is at 1 and nothing is in flight.
C12_Witness ==
    /\ ev.op = "submitFixed"
    /\ sess[ev.asess].currentIndex = 1
    /\ Len(sess[ev.asess].items) = 2
    /\ reqs = {}

\* C13: no score request is ever made for an adaptive session; a stateless
\* result without items is kept as the session's final payload, with the
\* results rendered from it; a result with items makes the first of them
\* the current item, whose question (with its Skip button) is presented.
C13_AdaptiveNeverCallsScore ==
    [][/\ \A r \in reqs' : r.kind = "score" => sess'[r.sess].mode = "fixed"
       /\ \A s \in SessIds : sess'[s].mode = "stateless" => scoreCalls'[s] = 0
       /\ \A r \in reqs :
             Consumed(r, "nextFinal") =>
                 /\ ~sess'[r.sess].lastPayload.null
                 /\ sess'[r.sess].lastPayload.Items = << >>
                 /\ r.sess \in scored'
                 /\ scoreCalls'[r.sess] = scoreCalls[r.sess]
                 /\ r.live => view'[r.form] = ResultsView(r.sess)
       /\ \A r \in reqs :
             Consumed(r, "nextItem") =>
                 /\ sess'[r.sess].lastPayload = ItemPayload(r.body)
                 /\ sess'[r.sess].currentItem = ItemPayload(r.body).Items[1]
                 /\ r.live => view'[r.form] =
                        QuestionView(r.sess, ItemPayload(r.body).Items[1], TRUE)]_vars

\* A result with two items has just arrived and the question of the first
\* is shown.
C13_Witness ==
    /\ ev.op = "nextItem"
    /\ sess[ev.sess].mode = "stateless"
    /\ Len(sess[ev.sess].lastPayload.Items) = 2
    /\ view[ev.form] = QuestionView(ev.sess, sess[ev.sess].lastPayload.Items[1], TRUE)

\* The fixed branch of startPromisAssessment runs in this step on a
\* form-detail document whose ordered item list is empty.
StartOnEmptyList ==
    \/ /\ ev'.op = "startFixed"
       /\ getOrderedItems(promisDetailsCache[ev'.form]) = << >>
    \/ /\ ev'.op = "detailsOk"
       /\ getOrderedItems(promisDetailsCache'[ev'.form]) = << >>

\* C14: starting the short form on an empty item list creates no session,
\* leaves the store as it is and presents no question.
C14_EmptyListStartsNothing ==
    [][StartOnEmptyList =>
          /\ created' = created
          /\ assessmentSessions' = assessmentSessions
          /\ \A s \in SessIds : sess'[s] \in {sess[s], NoSession}
          /\ view'[ev'.form].kind = "question" => view'[ev'.form] = view[ev'.form]
          /\ ev'.op = "startFixed" => view'[ev'.form] = Text("noitems")]_vars

\* An empty document has just been received: the container tells that no
\* items are available and the store holds nothing for the form.
C14_Witness ==
    /\ ev.op = "detailsOk"
    /\ getOrderedItems(promisDetailsCache[ev.form]) = << >>
    /\ view[ev.form] = Text("noitems")
    /\ assessmentSessions[ev.form] = 0

\* C15: the store holds one session per form OID and no session under two
\* OIDs; a start that creates a session puts a new object under the OID of
\* its form, in place of whatever was there, with empty responses and
\* history, and leaves the entries of the other forms alone.
C15_StartReplacesWithFreshSession ==
    [][/\ \A f, g \in Forms :
             (f # g /\ assessmentSessions'[f] # 0) =>
                 assessmentSessions'[f] # assessmentSessions'[g]
       /\ created' # created =>
             LET s == created'
                 f == ev'.form
             IN  /\ ev'.op \in {"startAdaptive", "startFixed", "detailsOk"}
                 /\ \A g \in Forms : assessmentSessions[g] # s
                 /\ sess[s] = NoSession
                 /\ assessmentSessions' = [assessmentSessions EXCEPT ![f] = s]
                 /\ sess'[s].responses = << >>
                 /\ sess'[s].history = << >>]_vars

\* The second session has just been started for a form whose first session
\* had one response and a request in flight.
C15_Witness ==
    /\ ev.op = "startAdaptive"
    /\ ev.sess = 2
    /\ assessmentSessions[ev.form] = 2
    /\ Len(sess[1].responses) = 1
    /\ \E r \in reqs : r.sess = 1 /\ r.asess = 1 /\ r.live
    /\ sess[2].responses = << >>

\* The steps that are a run of the submit or of the skip handler.
HandlerOps == {"submit", "skip", "submitFixed", "submitLast"}

\* A request that a submit or skip on session s has sent is in flight.
Outstanding(s) ==
    \E r \in reqs : r.asess = s

\* C16: no submit or skip handler runs on a session while a request sent by
\* an earlier submit or skip on that session is still in flight.
C16_OneOutstandingPerSession ==
    [][ev'.op \in HandlerOps => ~Outstanding(ev'.asess)]_vars

\* The same for as long as one session only has been created, so that no
\* session has been replaced.
C16_OneOutstandingWithoutStaleResults ==
    [][ev'.op \in HandlerOps =>
          \/ ~Outstanding(ev'.asess)
          \/ created > 1]_vars

\* C17: no response of a fixed session carries the skip sentinel and no
\* history entry of it is marked skipped; its questions have no Skip Item
\* button; and a score request carries one answered response per item.
C17_FixedNeverSkips ==
    /\ \A s \in SessIds :
          sess[s].mode = "fixed" =>
              /\ \A i \in DOMAIN sess[s].responses :
                    sess[s].responses[i].ItemResponseOID # GUID_EMPTY
              /\ \A i \in DOMAIN sess[s].history : ~sess[s].history[i].skipped
    /\ \A f \in Forms :
          (view[f].kind = "question" /\ sess[view[f].sess].mode = "fixed") =>
              ~view[f].allowSkip
    /\ \A r \in reqs :
          r.kind = "score" =>
              /\ Len(r.body) = Len(sess[r.sess].items)
              /\ \A i \in DOMAIN r.body : r.body[i].ItemResponseOID # GUID_EMPTY

\* Both items of a short form are answered, neither skipped, and scoring
\* has been requested.
C17_Witness ==
    /\ ev.op = "submitLast"
    /\ Len(sess[ev.sess].history) = 2
    /\ \A i \in 1..2 : ~sess[ev.sess].history[i].skipped
    /\ \E r \in reqs : r.kind = "score" /\ r.body = sess[ev.sess].responses

\* C18: the history of a session is parallel to its responses: entry i of
\* the history is about the item of response i, it is marked skipped and
\* labelled "Skipped" when response i carries the all-zero GUID, and it is
\* not marked skipped when response i carries an answer.
C18_HistoryParallelToResponses ==
    \A s \in SessIds :
        /\ DOMAIN sess[s].history = DOMAIN sess[s].responses
        /\ \A i \in DOMAIN sess[s].responses :
              LET response == sess[s].responses[i]
                  entry == sess[s].history[i]
              IN  /\ entry.itemId = response.ItemID
                  /\ response.ItemResponseOID = GUID_EMPTY =>
                         entry.skipped /\ entry.response = "Skipped"
                  /\ response.ItemResponseOID # GUID_EMPTY => ~entry.skipped

\* A session holds an answer to A and then a skip of B, with the two
\* history entries that tell so.
C18_Witness ==
    \E s \in SessIds :
        /\ Len(sess[s].responses) = 2
        /\ sess[s].history[1].itemId = "A" /\ ~sess[s].history[1].skipped
        /\ sess[s].history[2].itemId = "B" /\ sess[s].history[2].skipped
        /\ sess[s].responses[2].ItemResponseOID = GUID_EMPTY

\* C19: a session that startPromisAssessment creates is in fixed mode when
\* isPainInterferenceShortForm holds of its form and in stateless mode
\* otherwise, and no step changes the mode of a session.
C19_ModeFollowsClassifier ==
    [][/\ created' # created =>
             sess'[created'].mode =
                 IF isPainInterferenceShortForm(FormOf(ev'.form))
                 THEN "fixed" ELSE "stateless"
       /\ \A s \in SessIds :
             (sess[s].mode # "none" /\ sess'[s].mode # "none") =>
                 sess'[s].mode = sess[s].mode]_vars

\* A fixed session has been created for the form that is a short form by
\* its name only, and its first question is answered.
C19_Witness ==
    /\ ev.op = "submitFixed"
    /\ ev.form = "PED8A"
    /\ ev.form \notin PAIN_INTERFERENCE_FORM_IDS
    /\ sess[ev.asess].mode = "fixed"

\* The text or, when it is absent, the empty text.
TextOrEmpty(text) == IF text = Null THEN << >> ELSE text

\* Character c of a text reads as the lower-case character d of a phrase.
ReadsAs(c, d) ==
    \/ c = d
    \/ LET small == << "a", "b", "c", "d", "e", "f", "g", "h", "i", "j", "k",
                       "l", "m", "n", "o", "p", "q", "r", "s", "t", "u", "v",
                       "w", "x", "y", "z" >>
       IN  \E k \in DOMAIN small : UpperCase[k] = c /\ small[k] = d

\* The text holds the lower-case phrase somewhere, whatever the case of
\* its own letters.
HoldsPhrase(text, phrase) ==
    \E at \in 0..Len(text) :
        /\ at + Len(phrase) <= Len(text)
        /\ \A k \in DOMAIN phrase : ReadsAs(text[at + k], phrase[k])

PainInterference ==
    << "p", "a", "i", "n", " ", "i", "n", "t", "e", "r", "f", "e", "r", "e", "n", "c", "e" >>
ShortForm == << "s", "h", "o", "r", "t", " ", "f", "o", "r", "m" >>
Pediatric == << "p", "e", "d", "i", "a", "t", "r", "i", "c" >>

HoldsAllPhrases(text) ==
    /\ HoldsPhrase(text, PainInterference)
    /\ HoldsPhrase(text, ShortForm)
    /\ HoldsPhrase(text, Pediatric)

\* C20 as stated: the classifier returns true exactly when the OID of the
\* form is a known short-form OID or the lower-cased concatenation of its
\* name and its title holds the three phrases.
C20_NameAndTitleConcatenated ==
    ret.done =>
        ret.value =
            (\/ arg.OID \in PAIN_INTERFERENCE_FORM_IDS
             \/ HoldsAllPhrases(TextOrEmpty(arg.Name) \o TextOrEmpty(arg.Title)))

\* C20, amended: the classifier returns true exactly when the OID of the
\* form is a known short-form OID or the name of the form, which is its
\* Name or, when the Name is absent, its Title, holds the three phrases
\* whatever the case of its letters.
C20_NameElseTitle ==
    ret.done =>
        ret.value =
            (\/ arg.OID \in PAIN_INTERFERENCE_FORM_IDS
             \/ HoldsAllPhrases(TextOrEmpty(IF arg.Name = Null THEN arg.Title
                                            ELSE arg.Name)))

\* The classifier has returned true for a form without a known OID and
\* without a Name, whose Title is in upper case.
C20_Witness ==
    /\ ret.done
    /\ ret.value
    /\ arg.OID \notin PAIN_INTERFERENCE_FORM_IDS
    /\ arg.Name = Null
    /\ arg.Title = Names.UpperCase

\* The step consumes the stateless request r of a submit or skip, and what it
\* hands to the session is the object made of a body that was no JSON.
AnsweredWithNoJson(r) ==
    /\ r \in reqs
    /\ reqs' = reqs \ {r}
    /\ r.kind = "next"
    /\ r.rollback.has
    /\ sess'[r.sess].lastPayload \in FallbackPayloads
    /\ sess[r.sess].lastPayload \notin FallbackPayloads

\* C21: a response of the provider whose body is no JSON is handled as a
\* failure of the request: the submit or skip that sent the request is rolled
\* back (responses and history are those of its snapshot), the session stays
\* in the store unscored, and the container shows neither the results nor a
\* further question.
C21_NoJsonBodyIsAFailure ==
    [][\A r \in reqs :
          AnsweredWithNoJson(r) =>
              /\ sess'[r.sess].responses = r.rollback.responses
              /\ sess'[r.sess].history = r.rollback.history
              /\ assessmentSessions' = assessmentSessions
              /\ scored' = scored
              /\ view'[r.form].kind \notin {"results", "question"}]_vars


\* The candidate fields of a payload in the order the claim gives them: the
\* top-level spellings, then the fields of Score, then those of Results.
ScorePaths ==
    << << "tScore" >>, << "TScore" >>, << "tscore" >>,
       << "Score", "TScore" >>, << "Score", "tScore" >>,
       << "Results", "TScore" >>, << "Results", "tScore" >>,
       << "Results", "Score" >> >>

FieldAt(body, path) ==
    IF body.null \/ path[1] \notin DOMAIN body THEN Undefined
    ELSE IF Len(path) = 1 THEN body[path[1]]
    ELSE IF path[2] \in DOMAIN body[path[1]] THEN body[path[1]][path[2]]
    ELSE Undefined

\* What each value of the inputs reads as: a finite number, a text that
\* parses to one ("61.5x" parses to 61.5, as parseFloat reads a text), or
\* nothing.
ReadsAsScore(value) ==
    CASE value \in {JNumber(42 * Unit), JString(<< "4", "2" >>)} ->
             [found |-> TRUE, n |-> 42 * Unit]
      [] value \in {JNumber(58 * Unit), JString(<< "5", "8" >>)} ->
             [found |-> TRUE, n |-> 58 * Unit]
      [] value = JNumber(0) -> [found |-> TRUE, n |-> 0]
      [] value = JString(<< "6", "1", ".", "5", "x" >>) ->
             [found |-> TRUE, n |-> 615 * (Unit \div 10)]
      [] OTHER -> [found |-> FALSE, n |-> 0]

SuppliedScore(body) ==
    LET readable == { i \in 1..Len(ScorePaths) :
                        ReadsAsScore(FieldAt(body, ScorePaths[i])).found }
    IN  IF readable = { } THEN [found |-> FALSE, n |-> 0]
        ELSE ReadsAsScore(FieldAt(body,
                 ScorePaths[CHOOSE i \in readable : \A j \in readable : i <= j]))

\* The scores of the inputs, spelled with one decimal place.
OnePlace(n) ==
    CASE n = 42 * Unit -> << "4", "2", ".", "0" >>
      [] n = 58 * Unit -> << "5", "8", ".", "0" >>
      [] n = 65 * Unit -> << "6", "5", ".", "0" >>
      [] n = 52 * Unit -> << "5", "2", ".", "0" >>
      [] n = 50 * Unit -> << "5", "0", ".", "0" >>
      [] n = 35 * Unit -> << "3", "5", ".", "0" >>
      [] n = 512346 * (Unit \div 10000) -> << "5", "1", ".", "2" >>

\* C23: when the provider's payload supplies a score that reads as a number,
\* that score is the one reported, whether or not the payload holds a theta.
C23_SuppliedScoreIsReported ==
    (ret.done /\ SuppliedScore(arg.body).found) =>
        ret.value.text = OnePlace(SuppliedScore(arg.body).n)

\* What theta*10+50, rounded to four places, is for each theta of the inputs
\* that is numeric.
DerivedFromTheta(Theta) ==
    CASE Theta \in {JNumber((15 * Unit) \div 10), JString(<< "1", ".", "5" >>)} ->
             [found |-> TRUE, n |-> 65 * Unit]
      [] Theta = JNumber((2 * Unit) \div 10) -> [found |-> TRUE, n |-> 52 * Unit]
      [] Theta \in {JNumber(0), JString(<< "0" >>)} ->
             [found |-> TRUE, n |-> 50 * Unit]
      [] Theta = JNumber(0 - (15 * Unit) \div 10) ->
             [found |-> TRUE, n |-> 35 * Unit]
      [] Theta = JNumber(123456 * (Unit \div 1000000)) ->
             [found |-> TRUE, n |-> 512346 * (Unit \div 10000)]
      [] OTHER -> [found |-> FALSE, n |-> 0]

\* C24: when the provider's payload supplies no score and its theta is
\* numeric (a number or a numeric text, zero included), the T score is
\* theta*10+50 rounded to four places (1.5 gives 65, 0.2 gives 52) and is
\* shown with one place; when it supplies neither a score nor a numeric
\* theta, there is no T score and none is shown.
C24_DerivedFromTheta ==
    (ret.done /\ ~SuppliedScore(arg.body).found) =>
        LET derived == DerivedFromTheta(FieldAt(arg.body, << "Theta" >>))
        IN  IF derived.found
            THEN /\ ret.value.tScore = [type |-> "number",
                                        value |-> [nan |-> FALSE, n |-> derived.n]]
                 /\ ret.value.text = OnePlace(derived.n)
            ELSE /\ ret.value.tScore = Undefined
                 /\ ret.value.text = Null

\* A payload with theta 0.123456 and no score has given 51.2346, shown as 51.2.
C24_Witness ==
    /\ ret.done
    /\ ~SuppliedScore(arg.body).found
    /\ FieldAt(arg.body, << "Theta" >>) = JNumber(123456 * (Unit \div 1000000))
    /\ ret.value.tScore = JNumber(512346 * (Unit \div 10000))
    /\ ret.value.text = << "5", "1", ".", "2" >>


\* The order fields the claim knows, first to last.
OrderFields ==
    << "ItemOrder", "Order", "Sequence", "QuestionNumber", "ItemPosition",
       "Position" >>

HasExplicitOrder(item) == \E i \in DOMAIN OrderFields : OrderFields[i] \in DOMAIN item

\* The number an order field of the inputs holds.
OrderHeld(value) ==
    CASE value = JNumber(Unit) -> 1
      [] value = JNumber(2 * Unit) -> 2
      [] value = JNumber(3 * Unit) -> 3
      [] value = JString(<< "4" >>) -> 4
      [] value = JNumber(5 * Unit) -> 5

\* The identifiers of the inputs that begin with a digit sequence, and the
\* number it spells.
LeadingDigits(id) ==
    CASE id = "2B" -> [found |-> TRUE, n |-> 2]
      [] OTHER -> [found |-> FALSE, n |-> 0]

Unordered(item) == ~HasExplicitOrder(item) /\ ~LeadingDigits(item.ID).found

\* The ordering key of the claim: the first order field the item has, else
\* the leading digits of its identifier, else a key after all others.
OrderingKey(item) ==
    IF HasExplicitOrder(item)
    THEN OrderHeld(item[OrderFields[CHOOSE i \in DOMAIN OrderFields :
                       /\ OrderFields[i] \in DOMAIN item
                       /\ \A j \in 1..(i - 1) : OrderFields[j] \notin DOMAIN item]])
    ELSE IF LeadingDigits(item.ID).found THEN LeadingDigits(item.ID).n
    ELSE 1000

\* The identifiers of the inputs, in lexicographic order.
IdentifierOrder == << "2B", "A", "B", "Q1", "Q10", "Q2", "X" >>

IdentifierRank(id) == CHOOSE k \in DOMAIN IdentifierOrder : IdentifierOrder[k] = id

\* How often an item occurs in a list.
Occurrences(items, item) == Cardinality({ i \in DOMAIN items : items[i] = item })

\* C25: getOrderedItems returns a permutation of the items, ascending by
\* ordering key (the first order field present, else the leading digits of
\* the identifier), ties broken by identifier.
C25_SortedByOrderingKey ==
    ret.done =>
        /\ Len(ret.value) = Len(arg)
        /\ \A item \in ItemPool :
               Occurrences(ret.value, item) = Occurrences(arg, item)
        /\ \A i, j \in DOMAIN ret.value :
               i < j =>
                   \/ OrderingKey(ret.value[i]) < OrderingKey(ret.value[j])
                   \/ /\ OrderingKey(ret.value[i]) = OrderingKey(ret.value[j])
                      /\ IdentifierRank(ret.value[i].ID)
                             <= IdentifierRank(ret.value[j].ID)

\* C26: in what getOrderedItems returns, an item without an order field
\* whose identifier does not begin with digits comes after every item that
\* has an order field.
C26_UnorderedItemsSortLast ==
    ret.done =>
        \A i, j \in DOMAIN ret.value :
            (Unordered(ret.value[i]) /\ HasExplicitOrder(ret.value[j])) => j < i


\* The number the value of an entry of the inputs parses to.
ValueHeld(entry) ==
    IF "Value" \notin DOMAIN entry THEN [found |-> FALSE, n |-> 0]
    ELSE CASE entry.Value = JString(<< "1" >>) -> [found |-> TRUE, n |-> 1]
           [] entry.Value \in {JString(<< "2" >>), JNumber(2 * Unit)} ->
                  [found |-> TRUE, n |-> 2]
           [] entry.Value = JString(<< "3" >>) -> [found |-> TRUE, n |-> 3]
           [] OTHER -> [found |-> FALSE, n |-> 0]

\* The order of the claim: the order field when the entry has one, else the
\* number its value parses to, else a key after all others.
OptionKey(entry) ==
    IF "Order" \in DOMAIN entry THEN OrderHeld(entry.Order)
    ELSE IF ValueHeld(entry).found THEN ValueHeld(entry).n
    ELSE 1000

\* The labels of the inputs' entries, in lexicographic order.
LabelOrder ==
    << << "(", "1", ")", " ", "A" >>, << "(", "1", ")", " ", "B" >>,
       << "(", "2", ")", " ", "A" >>, << "(", "2", ")", " ", "B" >>,
       << "(", "3", ")", " ", "C" >>, << "(", "A", "B", "C", ")", " ", "A" >>,
       << "A" >>, << "B" >> >>

LabelRank(label) == CHOOSE k \in DOMAIN LabelOrder : LabelOrder[k] = label

\* C27: the options of an item come sorted by the order field when an option
\* has one, else by the number its value parses to, else last; ties are
\* broken by label.
C27_OptionsSortedByOrderThenValue ==
    ret.done =>
        \A i, j \in DOMAIN ret.value :
            i < j =>
                \/ OptionKey(ret.value[i].raw) < OptionKey(ret.value[j].raw)
                \/ /\ OptionKey(ret.value[i].raw) = OptionKey(ret.value[j].raw)
                   /\ LabelRank(ret.value[i].label) <= LabelRank(ret.value[j].label)


\* The identifiers of the items of a list, in its order.
ItemIds(items) == [i \in DOMAIN items |-> items[i].ID]

C29_CachedDocumentIsServed ==
    [][\A f \in Forms :
          promisDetailsCache[f] # NoDoc =>
              /\ promisDetailsCache'[f] = promisDetailsCache[f]
              /\ \A r \in reqs' :
                     (r.kind = "details" /\ r.form = f) =>
                         \E q \in reqs : r \in {q, [q EXCEPT !.live = FALSE]}
              /\ (ev' # ev /\ ev'.op \in {"startFixed", "startFixedFetch"}
                    /\ ev'.form = f) =>
                     /\ ev'.op = "startFixed"
                     /\ ev'.sess # 0 =>
                            { sess'[ev'.sess].items[i] :
                                i \in DOMAIN sess'[ev'.sess].items }
                              = { promisDetailsCache[f][i] :
                                    i \in DOMAIN promisDetailsCache[f] }]_vars

\* A start was served from the cache: the session it made holds the cached
\* document's two items and no form-detail request is in flight.
C29_Witness ==
    /\ ev.op = "startFixed"
    /\ ev.sess # 0
    /\ Len(promisDetailsCache[ev.form]) = 2
    /\ Len(sess[ev.sess].items) = 2
    /\ \A r \in reqs : r.kind # "details"


\* The call has failed with status 400 and the provider was not asked.
InvalidArgument == ret.value.threw /\ ret.value.statusCode = 400 /\ ~ret.value.contacted

\* C30: scoring called with responses that are no list or an empty one fails
\* with status 400 without the provider being asked, and so does every
\* operation that takes a form identifier and is called without one.
C30_InvalidArgumentBeforeProvider ==
    ret.done =>
        /\ (/\ arg.op \in {"scoreFormResponses", "scoreRoute"}
            /\ arg.responses.type # "array" \/ arg.responses.value = << >>)
               => InvalidArgument
        /\ (/\ arg.op \notin {"listForms", "formsRoute"}
            /\ arg.formOid \in {"", "<undefined>", "<null>"})
               => InvalidArgument

\* scoreFormResponses, called with an identifier and an empty list while the
\* provider would have answered, has failed with 400 unasked.
C30_Witness ==
    /\ ret.done
    /\ arg.op = "scoreFormResponses"
    /\ arg.formOid = "PED8A"
    /\ arg.responses = JArray(<< >>)
    /\ arg.response.ok
    /\ InvalidArgument

\* ------------------------------------------------------------------- C31
\* C31: parseTScore does not modify the payload it is given: once the call
\* has returned, every field of the payload is as it was before the call.
C31_PayloadUnmodified ==
    [][(~ret.done /\ ret'.done) =>
          /\ DOMAIN arg' = DOMAIN arg
          /\ \A name \in DOMAIN arg : arg'[name] = arg[name]]_vars

\* A call has returned a score that the payload holds outside its tScore and
\* TScore members, so a function that stored what it derived would have
\* added them.
C31_Witness ==
    /\ ret.done
    /\ ret.value # Undefined
    /\ ~arg.null
    /\ "tScore" \notin DOMAIN arg
    /\ "TScore" \notin DOMAIN arg

\* ------------------------------------------------------------------- C33
\* C33: the first request of startAdaptive carries an empty response list,
\* and every stateless request sent by a submit or a skip carries the
\* response list of the session the handler appended to, whose last element
\* is the response just appended.
C33_RequestCarriesAnsweredList ==
    [][/\ ev'.op = "startAdaptive" =>
              \A r \in reqs' \ reqs : r.kind = "next" /\ r.body = << >>
       /\ ev'.op \in {"submit", "skip"} =>
              \A r \in reqs' \ reqs :
                  /\ r.kind = "next"
                  /\ r.body = sess'[ev'.asess].responses
                  /\ r.body = Append(sess[ev'.asess].responses,
                                     r.body[Len(sess[ev'.asess].responses) + 1])]_vars

\* ------------------------------------------------------------------- C36
\* C36: in fixed mode the responses follow the item list: the i-th response
\* of a fixed session carries the identifier of its i-th item, and the list
\* a score request carries answers the items in the normalizer's order, Q1
\* then Q2 for the document that lists Q2 before Q1.
C36_ResponsesFollowItems ==
    /\ \A s \in SessIds :
           sess[s].mode = "fixed" =>
               /\ Len(sess[s].responses) <= Len(sess[s].items)
               /\ \A i \in 1..Len(sess[s].responses) :
                      sess[s].responses[i].ItemID = sess[s].items[i].ID
    /\ \A r \in reqs :
           r.kind = "score" =>
               [i \in DOMAIN r.body |-> r.body[i].ItemID] = << "Q1", "Q2" >>

\* Both items of a fixed session have been answered.
C36_Witness ==
    \E s \in SessIds :
        /\ sess[s].mode = "fixed"
        /\ Len(sess[s].responses) = 2
        /\ sess[s].responses[1].ItemID = "Q1"
        /\ sess[s].responses[2].ItemID = "Q2"

\* ------------------------------------------------------------------- C35
\* C35: no open session is ever stuck: whenever the store holds a session
\* for a form and no request is in flight for that session, the page shows
\* a question of that session on which a submit or a skip can be made.
C35_NoOpenSessionIsStuck ==
    \A f \in Forms :
        (/\ assessmentSessions[f] # 0
         /\ \A r \in reqs : r.sess # assessmentSessions[f]) =>
            /\ view[f].kind = "question"
            /\ view[f].sess = assessmentSessions[f]
            /\ radioInputs(view[f].item) # { } \/ view[f].allowSkip

\* ------------------------------------------------------------------- C34
\* The operations of the client that ask the provider, and the routes.
ProviderOperations ==
    {"listForms", "getFormDetails", "fetchStatelessAssessmentItem",
     "scoreFormResponses"}

ProviderRoutes == {"formsRoute", "detailsRoute", "statelessRoute", "scoreRoute"}

\* C34: an operation that asked the provider and was answered with a failure
\* fails with the status code of that answer, and each of the four routes
\* answers the browser with exactly that status code, and with 500 when the
\* error has none because the connection failed.
C34_StatusCodeIsPropagated ==
    (ret.done /\ ret.value.contacted /\ ~arg.response.ok) =>
        /\ ret.value.threw
        /\ (arg.op \in ProviderOperations /\ arg.response.status # 0) =>
               ret.value.statusCode = arg.response.status
        /\ arg.op \in ProviderRoutes =>
               ret.value.statusCode = IF arg.response.status = 0 THEN 500
                                      ELSE arg.response.status

\* The form-list route has answered 404 after the provider answered 404.
C34_Witness ==
    /\ ret.done
    /\ arg.op = "formsRoute"
    /\ arg.response.status = 404
    /\ ret.value.contacted
    /\ ret.value.statusCode = 404

\* ------------------------------------------------------------------- C38
\* C38: for every interleaving of startMonitoring and stopMonitoring, at most
\* one streaming socket, one capture interval and one batch recorder exist at
\* a time, and right after stopMonitoring none of them is active.
LiveSockets ==
    { k \in 1..MaxStarts : readyState[k] \in {"connecting", "open"} }

LiveRecorders ==
    { r \in 1..MaxStarts : recorders[r] = "recording" }

C38_OneSocketTimerRecorder ==
    /\ Cardinality(LiveSockets) <= 1
    /\ Cardinality(timers) <= 1
    /\ Cardinality(LiveRecorders) <= 1
    /\ hev.op = "stop" =>
         /\ LiveSockets = { }
         /\ timers = { }
         /\ LiveRecorders = { }

\* ------------------------------------------------------------------- C32
\* C32: monitoring is opt-in: a video frame or a batch sample is sent to the
\* emotion-analysis service only while monitoring is enabled, never before
\* the user enabled it and never after stopMonitoring until it is enabled
\* again.
C32_NothingSentWhileDisabled ==
    hev.op \in {"frame", "batch"} => monitoringEnabled

\* ------------------------------------------------------------------- C37
\* C37: at most one video frame awaits a reply: a frame is sent only while
\* serverReady is true and the socket is open, sending clears serverReady,
\* and between two frames sent on one socket a message of the server has
\* been received on it.
C37_OneFrameAwaitingReply ==
    /\ \A k \in 1..MaxStarts : awaiting[k] <= 1
    /\ hev.op = "frame" =>
         /\ readyState[hev.on] = "open"
         /\ ~serverReady

\* ------------------------------------------------------------------- C39
\* C39: the game runs at most one animation loop: while the game is running
\* no more than one callback of loop is scheduled, and update() runs at most
\* once in an animation frame.
C39_OneLoop ==
    /\ running => scheduled <= 1
    /\ updates <= 1

====
